---- MODULE Spec2Model ----
(***************************************************************************)
(* Model of the FileSync DiffCopy handler of the session tunnel            *)
(* (src/src/session/grpc_tunnel.rs): the STAT phase over a directory tree, *)
(* the REQ/DATA loop over the inbound half of the HTTP/2 stream, and the   *)
(* closing FIN and trailers.                                               *)
(*                                                                         *)
(* Strings that the code compares or concatenates (entry names, relative   *)
(* paths) are sequences of byte values.  File contents are not stored: a   *)
(* DATA payload is the byte range [off, off+len) of the object it was read *)
(* from, so two payloads are equal iff they are the same bytes of the same *)
(* object.  The build is the unix one (#[cfg(unix)]): mode is st_mode.     *)
(* The HTTP/2 stream of the call stays usable while the handler runs, so   *)
(* send_data and send_trailers succeed; local I/O may fail.                *)
(***************************************************************************)
EXTENDS Integers, Sequences, FiniteSets, TLC

(***************************************************************************)
(* Bounds of the model.                                                    *)
(***************************************************************************)
\* entries of a generated tree in the STAT-phase specification
MaxEntries == 3
\* entries of a generated tree in the full-protocol specification
MaxEntriesReq == 2
\* frames the daemon sends on the inbound half of one call
MaxMsgs == 2
\* local I/O operations that may fail during one call
MaxFaults == 1
\* length of the short chunks in which HTTP/2 may deliver the inbound bytes
CutLen == 3

(***************************************************************************)
(* Byte strings.                                                           *)
(***************************************************************************)
\* '/' as written by format!("{}/{}", prefix, name)
Slash == 47

NameDockerfile == <<68, 111, 99, 107, 101, 114, 102, 105, 108, 101>>
NameA == <<97>>
NameAY == <<97, 46, 121>>
Names == {NameDockerfile, NameA, NameAY}

\* String::cmp, as used by sort_by(|a, b| a.0.cmp(&b.0)): byte-wise
\* lexicographic, a proper prefix first.
StrLess(a, b) ==
    \E k \in 1..(Len(a) + 1) :
        /\ k - 1 <= Len(b)
        /\ \A i \in 1..(k - 1) : a[i] = b[i]
        /\ IF k = Len(a) + 1
           THEN Len(b) >= k
           ELSE k <= Len(b) /\ a[k] < b[k]

\* rel_path of an entry: the name at the root, prefix "/" name below it.
RelPath(prefix, name) ==
    IF prefix = <<>> THEN name ELSE prefix \o <<Slash>> \o name

(***************************************************************************)
(* The filesystem under root_path.  An entry is what lstat reports for one *)
(* path (a sequence of names below the root): st_mode, st_size, and for a  *)
(* symbolic link where it leads.                                           *)
(***************************************************************************)
S_IFDIR == 16384
S_IFREG == 32768
S_IFLNK == 5 * 8192

\* mode & S_IFMT
TypeBits(mode) == ((mode \div 4096) % 16) * 4096

\* Metadata::is_dir, Metadata::is_file
IsDir(md) == TypeBits(md.mode) = S_IFDIR
IsFile(md) == TypeBits(md.mode) = S_IFREG

\* the object a symbolic link of the tree leads to: a regular file that is
\* not under root_path
OutsideFile == [inside |-> FALSE, path |-> <<>>, mode |-> S_IFREG + 420, size |-> 11]

FileEntries(lens) ==
    {[mode |-> S_IFREG + 420, size |-> n, link |-> "none"] : n \in lens}
DirEntries(lens) ==
    {[mode |-> S_IFDIR + 493, size |-> n, link |-> "none"] : n \in lens}
LinkEntries == {[mode |-> S_IFLNK + 511, size |-> 11, link |-> "outside"]}

MkEntry(p, v) == [path |-> p, mode |-> v.mode, size |-> v.size, link |-> v.link]

PathsOf(t) == {e.path : e \in t}

\* where one more entry may be put: under the root or under a directory of t
FreePaths(t, names) ==
    {p \in {par \o <<n>> :
                par \in {<<>>} \cup {e.path : e \in {x \in t : IsDir(x)}},
                n \in names} :
        p \notin PathsOf(t)}

RECURSIVE Trees(_, _, _)
Trees(k, names, variants) ==
    IF k = 0 THEN {{}}
    ELSE LET prev == Trees(k - 1, names, variants)
         IN prev \cup UNION {{t \cup {MkEntry(p, v)} :
                                  p \in FreePaths(t, names), v \in variants} :
                             t \in prev}

\* the trees of the STAT-phase specification
StatTrees ==
    Trees(MaxEntries, Names,
          FileEntries({0, 5}) \cup DirEntries({4096}) \cup LinkEntries)

\* the trees of the full-protocol specification: a file is empty or one
\* byte longer than the read buffer
ReqTrees ==
    Trees(MaxEntriesReq, {NameDockerfile, NameA},
          FileEntries({0, 32769}) \cup DirEntries({4096}) \cup LinkEntries)

(***************************************************************************)
(* State of one DiffCopy call and of its environment.                      *)
(***************************************************************************)
VARIABLES
    fs,            \* the entries under root_path
    dir_name,      \* the dir-name request header: <<>> absent, <<v>> present
    pc,            \* where the handler is
    stack,         \* the active send_stat_packets_dfs calls, innermost last
    id_counter,    \* next id of the STAT phase
    file_map,      \* id -> path, for the REQ phase
    out,           \* packets written to the response stream, in order
    trailers,      \* <<>> until trailers are sent, then <<[status, message]>>
    result,        \* "running", then what the handler returned: "ok" or "err"
    wire,          \* bytes the daemon has sent and the handler has not read
    closed,        \* the daemon has ended the inbound half
    budget,        \* frames the daemon may still send
    buffer,        \* the handler's parse buffer
    received_fin,  \* the handler's flag of the same name
    cur,           \* the file being streamed: <<>> or <<[id, obj, size, off]>>
    faults,        \* local I/O operations that may still fail
    cut,           \* length of a short inbound chunk
    reqs,          \* history: the REQ packets decoded, and what became of each
    heard          \* history, kept by SpecChunks only: <<>>, or <<[sent, taken]>>

\* The session around the calls: the services registered with the session
\* and handed to the tunnel, and one request of the tunnel at a time
VARIABLES
    config,        \* <<>>, or <<c>> when the session was made by build(c)
    auth,          \* Option<AuthServer>: <<>> or <<registries>>
    secrets,       \* Option<SecretsServer>: <<>> or <<id -> data>>
    added,         \* <<>>, or the last add_secret / from_map call and its result
    tpc,           \* "setup", "serving", "dispatch"
    request,       \* <<>>, or the request being handled
    response,      \* what was sent on the HTTP/2 stream of the request
    returned       \* what handle_request returned: "none", "ok", "err"

\* The Session object of a build, and BuildKitClient::build around it
VARIABLES
    session,       \* <<>>, or <<[id, shared_key]>> of Session::new()
    file_sync,     \* Option<FileSyncServer>: <<>> or <<root>>
    bpc,           \* where build() is
    handler,       \* a progress handler was given to build()
    build_ref,     \* the build reference
    rpcs,          \* history: the calls on the control channel, and their ends
    solve,         \* the Solve RPC: "none", "in_flight", "ok", "err"
    spawned,       \* the three tasks of Session::start have been spawned
    stream,        \* what the Status stream has yet to yield
    calls,         \* history: the calls on the progress handler
    bresult        \* <<>>, or what build() returned

\* Platform::parse and Platform::to_string
VARIABLES
    input,         \* the string given to Platform::parse
    platform       \* <<>>, or <<the result of the parse>>

\* The tasks of a started session and the channels between them
VARIABLES
    inbound,       \* the daemon's half of the Session stream: "open", "closed"
    in_pump,       \* the inbound pump: "recv", "send", "exited"
    in_chan,       \* messages in the channel inbound_tx -> inbound_rx
    conn,          \* the tunnel server: "handshake", "open", "closing", "exited"
    woken,         \* the tunnel server is scheduled to be polled
    in_waker,      \* its waker is registered with inbound_rx
    h2_waker,      \* its waker is registered with the HTTP/2 streams
    out_buf,       \* frames the HTTP/2 connection has yet to write
    htask,         \* a handler task: "none", "sending", "waiting", "failing"
    out_chan,      \* messages in the channel outbound_tx -> outbound_rx
    out_pump,      \* the outbound pump: "recv", "send", "exited"
    tx_chan,       \* messages in the channel tx -> rx of the Session call
    session_tx,    \* the Session of build() is alive and holds its sender
    rx             \* the outbound half of the Session stream: "open", "ended", "dropped"

\* The messages on their way through a started session: the pumps, the
\* channels and the MessageStream of the tunnel, with their contents
VARIABLES
    d_budget,      \* messages the daemon may still send
    d_closed,      \* the daemon has ended its half of the Session stream
    d_sent,        \* history: the messages inbound.message() has yielded
    in_held,       \* the message the inbound pump is sending: <<>> or <<m>>
    in_alive,      \* the inbound pump runs and holds inbound_tx
    inbound_ch,    \* the messages in the channel inbound_tx -> inbound_rx
    received,      \* history: the messages poll_read took from inbound_rx
    read_buffer,   \* MessageStream::read_buffer
    read_pos,      \* MessageStream::read_pos
    last_read,     \* <<>>, or the last poll_read: what it found and returned
    delivered,     \* history: the bytes the reads have returned
    dropped,       \* the MessageStream has been dropped
    w_budget,      \* writes the HTTP/2 connection may still make
    last_write,    \* <<>>, or the last poll_write: what it found and returned
    written,       \* history: the buffers of the writes that returned Ok
    outbound_ch,   \* the messages in the channel outbound_tx -> outbound_rx
    enqueued,      \* history: the messages put into that channel
    out_held,      \* the message the outbound pump is sending: <<>> or <<m>>
    out_alive,     \* the outbound pump runs and holds outbound_rx
    outer_ch,      \* the messages in the channel tx -> rx of the Session call
    forwarded,     \* history: the messages the outbound pump sent on tx
    outer_open     \* rx, the outbound half of the Session stream, is alive

\* The HTTP/2 streams the tunnel server has accepted, each with the task
\* that handles it
VARIABLES
    accepting,     \* the accept loop of serve runs
    h2_streams     \* stream id -> the handler task of the stream and its locals

diffCopyVars == <<fs, dir_name, pc, stack, id_counter, file_map, out, trailers, result,
                  wire, closed, budget, buffer, received_fin, cur, faults, cut, reqs,
                  heard>>
sessVars == <<config, auth, secrets, added, tpc, request, response, returned>>
objVars == <<session, file_sync>>
buildVars == <<bpc, handler, build_ref, rpcs, solve, spawned, stream, calls, bresult>>
platVars == <<input, platform>>
taskVars == <<inbound, in_pump, in_chan, conn, woken, in_waker, h2_waker, out_buf, htask,
              out_chan, out_pump, tx_chan, session_tx, rx>>
pipeVars == <<d_budget, d_closed, d_sent, in_held, in_alive, inbound_ch, received,
              read_buffer, read_pos, last_read, delivered, dropped, w_budget, last_write,
              written, outbound_ch, enqueued, out_held, out_alive, outer_ch, forwarded,
              outer_open>>
multiVars == <<accepting, h2_streams>>
vars == <<diffCopyVars, sessVars, objVars, buildVars, platVars, taskVars, pipeVars,
          multiVars>>

\* what an action of the DiffCopy call, and one of the services and the
\* tunnel, leaves alone
outsideDiffCopy == <<sessVars, objVars, buildVars, platVars, taskVars, pipeVars, multiVars>>
outsideSession == <<diffCopyVars, objVars, buildVars, platVars, taskVars, pipeVars, multiVars>>

envVars == <<wire, closed, budget, cut>>
reqVars == <<buffer, received_fin, cur, reqs>>
statVars == <<stack, id_counter, file_map>>

(***************************************************************************)
(* Filesystem access.                                                      *)
(***************************************************************************)
Children(dir) == {e \in fs : Len(e.path) = Len(dir) + 1
                             /\ SubSeq(e.path, 1, Len(dir)) = dir}

Exists(p) == p \in PathsOf(fs)
Lstat(p) == CHOOSE e \in fs : e.path = p

\* the object a path names once symbolic links are followed (fs::metadata,
\* File::open, canonicalize)
Follow(p) ==
    LET e == Lstat(p)
    IN IF e.link = "outside" THEN OutsideFile
       ELSE [inside |-> TRUE, path |-> p, mode |-> e.mode, size |-> e.size]

\* the orders in which read_dir may yield the entries of a directory
Listings(dir) ==
    LET c == Children(dir)
        n == Cardinality(c)
    IN {l \in [1..n -> c] : \A i, j \in 1..n : l[i] = l[j] => i = j}

\* (name, entry_path, metadata) as pushed by the read loop
DirEntry(e) == [name |-> e.path[Len(e.path)], path |-> e.path,
                md |-> [mode |-> e.mode, size |-> e.size]]

\* entries.sort_by(|a, b| a.0.cmp(&b.0))
RECURSIVE InsertByName(_, _)
InsertByName(e, s) ==
    IF s = <<>> THEN <<e>>
    ELSE IF ~StrLess(Head(s).name, e.name) THEN <<e>> \o s
    ELSE <<Head(s)>> \o InsertByName(e, Tail(s))

RECURSIVE SortByName(_)
SortByNameBad(s) == s
SortByName(s) ==
    IF s = <<>> THEN <<>> ELSE InsertByName(Head(s), SortByName(Tail(s)))

(***************************************************************************)
(* Packets.                                                                *)
(***************************************************************************)
\* Stat { path, mode, size, .. } of an entry; size is 0 for a directory
StatSize(md) == IF IsDir(md) THEN 0 ELSE md.size

StatPacket(id, path, mode, size) ==
    [type |-> "STAT", id |-> id,
     stat |-> <<[path |-> path, mode |-> mode, size |-> size]>>, data |-> <<>>]
FinalStatPacket == [type |-> "STAT", id |-> 0, stat |-> <<>>, data |-> <<>>]
DataPacketBad(id, obj, off, n) ==
    [type |-> "DATA", id |-> 0, stat |-> <<>>,
     data |-> IF n = 0 THEN <<>> ELSE <<[obj |-> obj, off |-> off, len |-> n]>>]

DataPacket(id, obj, off, n) ==
    [type |-> "DATA", id |-> id, stat |-> <<>>,
     data |-> IF n = 0 THEN <<>> ELSE <<[obj |-> obj, off |-> off, len |-> n]>>]
FinPacket == [type |-> "FIN", id |-> 0, stat |-> <<>>, data |-> <<>>]

EmptyMap == [i \in {} |-> <<>>]

send_only_dockerfileBad == dir_name = <<"Dockerfile">>

send_only_dockerfile == dir_name = <<"dockerfile">>

Top == stack[Len(stack)]
Frame(path, prefix) ==
    [path |-> path, prefix |-> prefix, listed |-> FALSE, entries |-> <<>>]
ReplaceTop(f) == [stack EXCEPT ![Len(stack)] = f]

\* let entry_id = *id_counter; *id_counter += 1
NextIdBad(id) == id + 2
NextId(id) == id + 1

Fail(status, message) ==
    /\ trailers' = <<[status |-> status, message |-> message]>>
    /\ result' = "err"
    /\ pc' = "done"

(***************************************************************************)
(* handle_file_sync_diff_copy_stream: response headers, then the STAT      *)
(* phase chosen by the dir-name header.                                    *)
(***************************************************************************)
StartDiffCopy ==
    /\ pc = "start"
    /\ pc' = IF send_only_dockerfile THEN "dockerfile" ELSE "dfs"
    /\ stack' = IF send_only_dockerfile THEN <<>> ELSE <<Frame(<<>>, <<>>)>>
    /\ file_map' = EmptyMap
    /\ id_counter' = 0
    /\ UNCHANGED <<fs, dir_name, out, trailers, result, envVars, reqVars, faults>>
    /\ UNCHANGED heard
    /\ UNCHANGED outsideDiffCopy

DockerfileMissingBad ==
    /\ pc = "dockerfile"
    /\ ~Exists(<<NameDockerfile>>)
    /\ pc' = "final_stat"
    /\ UNCHANGED <<fs, dir_name, out, trailers, result, envVars, reqVars, statVars,
                   faults>>
    /\ UNCHANGED heard
    /\ UNCHANGED outsideDiffCopy

\* dockerfile_path.exists() is false
DockerfileMissing ==
    /\ pc = "dockerfile"
    /\ ~Exists(<<NameDockerfile>>)
    /\ Fail(2, "Dockerfile not found")
    /\ UNCHANGED <<fs, dir_name, out, envVars, reqVars, statVars, faults>>
    /\ UNCHANGED heard
    /\ UNCHANGED outsideDiffCopy

\* tokio::fs::metadata(&dockerfile_path).await? fails: the handler returns
\* the error without sending trailers
DockerfileMetadataFails ==
    /\ pc = "dockerfile"
    /\ Exists(<<NameDockerfile>>)
    /\ faults > 0
    /\ faults' = faults - 1
    /\ result' = "err"
    /\ pc' = "done"
    /\ UNCHANGED <<fs, dir_name, out, trailers, envVars, reqVars, statVars>>
    /\ UNCHANGED heard
    /\ UNCHANGED outsideDiffCopy

\* the single STAT of the dockerfile mode, and its file_map entry
StatDockerfile ==
    /\ pc = "dockerfile"
    /\ Exists(<<NameDockerfile>>)
    /\ LET metadata == Follow(<<NameDockerfile>>)
       IN out' = Append(out, StatPacket(0, NameDockerfile, metadata.mode,
                                        metadata.size))
    /\ file_map' = (0 :> <<NameDockerfile>>)
    /\ pc' = "final_stat"
    /\ UNCHANGED <<fs, dir_name, trailers, result, envVars, reqVars, stack,
                   id_counter, faults>>
    /\ UNCHANGED heard
    /\ UNCHANGED outsideDiffCopy

(***************************************************************************)
(* send_stat_packets_dfs.  One frame of stack is one active call.          *)
(***************************************************************************)
\* read_dir, the metadata of every entry, and the sort
ReadDir ==
    /\ pc = "dfs"
    /\ ~Top.listed
    /\ \E l \in Listings(Top.path) :
          stack' = ReplaceTop([Top EXCEPT
                       !.listed = TRUE,
                       !.entries = SortByName([i \in DOMAIN l |-> DirEntry(l[i])])])
    /\ UNCHANGED <<fs, dir_name, pc, id_counter, file_map, out, trailers, result,
                   envVars, reqVars, faults>>
    /\ UNCHANGED heard
    /\ UNCHANGED outsideDiffCopy

ReadDirFailsBad ==
    /\ pc = "dfs"
    /\ ~Top.listed
    /\ faults > 0
    /\ faults' = faults - 1
    /\ stack' = ReplaceTop([Top EXCEPT !.listed = TRUE])
    /\ UNCHANGED <<fs, dir_name, pc, out, trailers, result, envVars, reqVars,
                   id_counter, file_map>>
    /\ UNCHANGED heard
    /\ UNCHANGED outsideDiffCopy

\* read_dir, next_entry or metadata fails: the error reaches the handler,
\* which sends trailers with grpc-status 2 and returns it
ReadDirFails ==
    /\ pc = "dfs"
    /\ ~Top.listed
    /\ faults > 0
    /\ faults' = faults - 1
    /\ Fail(2, "io error")
    /\ UNCHANGED <<fs, dir_name, out, envVars, reqVars, statVars>>
    /\ UNCHANGED heard
    /\ UNCHANGED outsideDiffCopy

\* one turn of the loop over the sorted entries: the STAT, the file_map
\* entry of a file, the recursive call for a directory
SendStat ==
    /\ pc = "dfs"
    /\ Top.listed
    /\ Top.entries # <<>>
    /\ LET e == Head(Top.entries)
           rel_path == RelPath(Top.prefix, e.name)
           entry_id == id_counter
           rest == ReplaceTop([Top EXCEPT !.entries = Tail(Top.entries)])
       IN /\ id_counter' = NextId(id_counter)
          /\ out' = Append(out, StatPacket(entry_id, rel_path, e.md.mode,
                                           StatSize(e.md)))
          /\ file_map' = IF IsFile(e.md) THEN (entry_id :> e.path) @@ file_map
                         ELSE file_map
          /\ stack' = IF IsDir(e.md) THEN Append(rest, Frame(e.path, rel_path))
                      ELSE rest
    /\ UNCHANGED <<fs, dir_name, pc, trailers, result, envVars, reqVars, faults>>
    /\ UNCHANGED heard
    /\ UNCHANGED outsideDiffCopy

\* a recursive call returns Ok(())
ReturnDfs ==
    /\ pc = "dfs"
    /\ Top.listed
    /\ Top.entries = <<>>
    /\ Len(stack) > 1
    /\ stack' = SubSeq(stack, 1, Len(stack) - 1)
    /\ UNCHANGED <<fs, dir_name, pc, id_counter, file_map, out, trailers, result,
                   envVars, reqVars, faults>>
    /\ UNCHANGED heard
    /\ UNCHANGED outsideDiffCopy

\* the call for the root returns Ok(())
DfsDone ==
    /\ pc = "dfs"
    /\ Top.listed
    /\ Top.entries = <<>>
    /\ Len(stack) = 1
    /\ stack' = <<>>
    /\ pc' = "final_stat"
    /\ UNCHANGED <<fs, dir_name, id_counter, file_map, out, trailers, result,
                   envVars, reqVars, faults>>
    /\ UNCHANGED heard
    /\ UNCHANGED outsideDiffCopy

\* the final STAT packet, without stat
SendFinalStatBad ==
    /\ pc = "final_stat"
    /\ pc' = "recv"
    /\ UNCHANGED <<fs, dir_name, out, trailers, result, envVars, reqVars, statVars,
                   faults>>
    /\ UNCHANGED heard
    /\ UNCHANGED outsideDiffCopy

SendFinalStat ==
    /\ pc = "final_stat"
    /\ out' = Append(out, FinalStatPacket)
    /\ pc' = "recv"
    /\ UNCHANGED <<fs, dir_name, trailers, result, envVars, reqVars, statVars,
                   faults>>
    /\ UNCHANGED heard
    /\ UNCHANGED outsideDiffCopy

(***************************************************************************)
(* The inbound half.  The daemon writes gRPC frames; HTTP/2 delivers the   *)
(* bytes to the handler in chunks.  The handler reads the                  *)
(* inbound half only at request_stream.data(), so the daemon's writes are  *)
(* taken there: a write made while the handler is busy is seen by it in    *)
(* exactly the same way.  A chunk is all the bytes in flight or the first  *)
(* cut of them.                                                            *)
(***************************************************************************)
\* PacketType as i32
PACKET_STAT == 0
PACKET_DATA == 1
PACKET_FIN == 2
PACKET_REQ == 3

\* PacketType::try_from(packet.type).unwrap_or(PacketType::PacketStat)
PacketTypeOf(n) ==
    IF n = PACKET_REQ THEN "REQ"
    ELSE IF n = PACKET_FIN THEN "FIN"
    ELSE IF n = PACKET_DATA THEN "DATA"
    ELSE "STAT"

\* protobuf encoding of Packet { type, id }: field 1 and field 3 as varints,
\* a zero field omitted (all values below 128)
EncodePacket(type, id) ==
    (IF type = 0 THEN <<>> ELSE <<8, type>>) \o (IF id = 0 THEN <<>> ELSE <<24, id>>)

\* the 5-byte gRPC prefix: compression flag, length as u32 big-endian
GrpcFrame(compressed, payload) ==
    LET n == Len(payload)
    IN <<compressed, (n \div 16777216) % 256, (n \div 65536) % 256,
         (n \div 256) % 256, n % 256>> \o payload

\* ids the daemon asks for: those a tree of the model can assign (a smaller
\* tree leaves the last of them unassigned)
ReqIds == 0..(MaxEntriesReq - 1)

\* what the daemon may send: REQ, FIN, a packet of another kind, a frame
\* flagged compressed, and a payload that is no Packet (a tag without value)
DaemonFrames ==
    {GrpcFrame(0, EncodePacket(PACKET_REQ, i)) : i \in ReqIds}
    \cup {GrpcFrame(0, EncodePacket(PACKET_FIN, 0)),
          GrpcFrame(0, EncodePacket(PACKET_DATA, 0)),
          GrpcFrame(1, EncodePacket(PACKET_REQ, 0)),
          GrpcFrame(0, <<8>>)}

\* history: the bytes the daemon has sent on the inbound half
Hear(f) ==
    heard' = IF heard = <<>> THEN heard
             ELSE <<[heard[1] EXCEPT !.sent = @ \o f]>>

DaemonSend ==
    /\ pc = "recv"
    /\ ~closed
    /\ budget > 0
    /\ budget' = budget - 1
    /\ UNCHANGED <<fs, dir_name, pc, out, trailers, result, closed, cut, reqVars,
                   statVars, faults>>
    /\ \E f \in DaemonFrames : wire' = wire \o f /\ Hear(f)
    /\ UNCHANGED outsideDiffCopy

\* the daemon ends the inbound half; the handler sees the end after the
\* bytes sent before it
DaemonClose ==
    /\ pc = "recv"
    /\ ~closed
    /\ wire = <<>>
    /\ closed' = TRUE
    /\ UNCHANGED <<fs, dir_name, pc, out, trailers, result, wire, budget, cut,
                   reqVars, statVars, faults>>
    /\ UNCHANGED heard
    /\ UNCHANGED outsideDiffCopy

(***************************************************************************)
(* The REQ loop of handle_file_sync_diff_copy_stream.                      *)
(***************************************************************************)
\* u32::from_be_bytes([buffer[1], buffer[2], buffer[3], buffer[4]])
FrameLength(b) == b[2] * 16777216 + b[3] * 65536 + b[4] * 256 + b[5]

\* a complete message is in the buffer
HasMessage(b) == Len(b) >= 5 /\ Len(b) >= 5 + FrameLength(b)

\* buffer[5..5+length], and the buffer after drain(0..5+length)
MessageData(b) == SubSeq(b, 6, 5 + FrameLength(b))
Drained(b) == SubSeq(b, 6 + FrameLength(b), Len(b))

\* Packet::decode over the fields the daemon of this model writes
DecodeError == [ok |-> FALSE, type |-> 0, id |-> 0]
RECURSIVE DecodeFields(_, _)
DecodeFields(bytes, packet) ==
    IF bytes = <<>> THEN packet
    ELSE IF Len(bytes) < 2 THEN DecodeError
    ELSE IF bytes[1] = 8
         THEN DecodeFields(SubSeq(bytes, 3, Len(bytes)), [packet EXCEPT !.type = bytes[2]])
    ELSE IF bytes[1] = 24
         THEN DecodeFields(SubSeq(bytes, 3, Len(bytes)), [packet EXCEPT !.id = bytes[2]])
    ELSE DecodeError
Decode(bytes) == DecodeFields(bytes, [ok |-> TRUE, type |-> 0, id |-> 0])

\* history: the messages the handler has taken out of its buffer
Taken ==
    heard' = IF heard = <<>> THEN heard
             ELSE <<[heard[1] EXCEPT !.taken =
                         Append(@, [compressed |-> buffer[1], data |-> MessageData(buffer)])]>>

\* the message at the head of the buffer, when it is to be decoded
Decodable == HasMessage(buffer) /\ buffer[1] = 0
Received == Decode(MessageData(buffer))
ReceivedType == PacketTypeOf(Received.type)

RecvChunkBad ==
    /\ pc = "recv"
    /\ wire # <<>>
    /\ \E k \in {Len(wire)} \cup {n \in {cut} : n < Len(wire) /\ buffer = <<>>} :
          /\ buffer' = SubSeq(wire, 1, k)
          /\ wire' = SubSeq(wire, k + 1, Len(wire))
    /\ pc' = "parse"
    /\ UNCHANGED <<fs, dir_name, out, trailers, result, closed, budget, cut,
                   received_fin, cur, reqs, statVars, faults>>
    /\ UNCHANGED heard
    /\ UNCHANGED outsideDiffCopy

\* Some(Ok(chunk)): the chunk is appended to the buffer.  A chunk is all the
\* bytes in flight, or, to an empty buffer, their first cut bytes, so that a
\* chunk may end inside a message
RecvChunk ==
    /\ pc = "recv"
    /\ wire # <<>>
    /\ \E k \in {Len(wire)} \cup {n \in {cut} : n < Len(wire) /\ buffer = <<>>} :
          /\ buffer' = buffer \o SubSeq(wire, 1, k)
          /\ wire' = SubSeq(wire, k + 1, Len(wire))
    /\ pc' = "parse"
    /\ UNCHANGED <<fs, dir_name, out, trailers, result, closed, budget, cut,
                   received_fin, cur, reqs, statVars, faults>>
    /\ UNCHANGED heard
    /\ UNCHANGED outsideDiffCopy

\* None: the request stream ended
RecvEnd ==
    /\ pc = "recv"
    /\ wire = <<>>
    /\ closed
    /\ pc' = "fin"
    /\ UNCHANGED <<fs, dir_name, out, trailers, result, envVars, reqVars, statVars,
                   faults>>
    /\ UNCHANGED heard
    /\ UNCHANGED outsideDiffCopy

\* the inner loop ends: no complete message is left in the buffer
NeedMoreData ==
    /\ pc = "parse"
    /\ ~HasMessage(buffer)
    /\ pc' = "recv"
    /\ UNCHANGED <<fs, dir_name, out, trailers, result, envVars, reqVars, statVars,
                   faults>>
    /\ UNCHANGED heard
    /\ UNCHANGED outsideDiffCopy

\* compressed != 0: the message is dropped
SkipCompressed ==
    /\ pc = "parse"
    /\ HasMessage(buffer)
    /\ buffer[1] # 0
    /\ buffer' = Drained(buffer)
    /\ UNCHANGED <<fs, dir_name, pc, out, trailers, result, envVars, received_fin,
                   cur, reqs, statVars, faults>>
    /\ Taken
    /\ UNCHANGED outsideDiffCopy

\* Packet::decode fails: the message is dropped
SkipUndecodable ==
    /\ pc = "parse"
    /\ Decodable
    /\ ~Received.ok
    /\ buffer' = Drained(buffer)
    /\ UNCHANGED <<fs, dir_name, pc, out, trailers, result, envVars, received_fin,
                   cur, reqs, statVars, faults>>
    /\ Taken
    /\ UNCHANGED outsideDiffCopy

\* file_map.get(&packet.id)
InFileMap(id) == id \in DOMAIN file_map

\* REQ for an id of file_map: send_file_data_packets is called
ReqKnown ==
    /\ pc = "parse"
    /\ Decodable
    /\ Received.ok
    /\ ReceivedType = "REQ"
    /\ InFileMap(Received.id)
    /\ buffer' = Drained(buffer)
    /\ cur' = <<[id |-> Received.id,
                 path |-> file_map[Received.id],
                 off |-> 0]>>
    /\ reqs' = Append(reqs, [id |-> Received.id, known |-> TRUE, from |-> Len(out),
                             to |-> Len(out), state |-> "sending"])
    /\ pc' = "open"
    /\ UNCHANGED <<fs, dir_name, out, trailers, result, envVars, received_fin,
                   statVars, faults>>
    /\ Taken
    /\ UNCHANGED outsideDiffCopy

\* REQ for an id that is not in file_map: logged, nothing is sent
ReqUnknown ==
    /\ pc = "parse"
    /\ Decodable
    /\ Received.ok
    /\ ReceivedType = "REQ"
    /\ ~InFileMap(Received.id)
    /\ buffer' = Drained(buffer)
    /\ reqs' = Append(reqs, [id |-> Received.id, known |-> FALSE, from |-> Len(out),
                             to |-> Len(out), state |-> "ignored"])
    /\ UNCHANGED <<fs, dir_name, pc, out, trailers, result, envVars, received_fin,
                   cur, statVars, faults>>
    /\ Taken
    /\ UNCHANGED outsideDiffCopy

\* FIN: both loops are left
ReqFin ==
    /\ pc = "parse"
    /\ Decodable
    /\ Received.ok
    /\ ReceivedType = "FIN"
    /\ buffer' = Drained(buffer)
    /\ received_fin' = TRUE
    /\ pc' = "fin"
    /\ UNCHANGED <<fs, dir_name, out, trailers, result, envVars, cur, reqs,
                   statVars, faults>>
    /\ Taken
    /\ UNCHANGED outsideDiffCopy

\* a packet of any other kind is ignored
IgnorePacket ==
    /\ pc = "parse"
    /\ Decodable
    /\ Received.ok
    /\ ReceivedType \notin {"REQ", "FIN"}
    /\ buffer' = Drained(buffer)
    /\ UNCHANGED <<fs, dir_name, pc, out, trailers, result, envVars, received_fin,
                   cur, reqs, statVars, faults>>
    /\ Taken
    /\ UNCHANGED outsideDiffCopy

(***************************************************************************)
(* send_file_data_packets.                                                 *)
(***************************************************************************)
\* vec![0u8; 32 * 1024]
BufLen == 32 * 1024

Min(a, b) == IF a <= b THEN a ELSE b

\* what file.read(&mut buffer) may return with rem bytes left: as much as
\* fits, or a short read
ReadSizesBad(rem) == {rem}

ReadSizes(rem) ==
    {Min(rem, BufLen)} \cup {n \in {BufLen \div 2} : n < rem}

\* how a REQ that was being served ends
EndReq(state) ==
    reqs' = [reqs EXCEPT ![Len(reqs)] = [@ EXCEPT !.to = Len(out'), !.state = state]]

\* File::open succeeds
OpenFile ==
    /\ pc = "open"
    /\ pc' = "read"
    /\ UNCHANGED <<fs, dir_name, out, trailers, result, envVars, reqVars, statVars,
                   faults>>
    /\ UNCHANGED heard
    /\ UNCHANGED outsideDiffCopy

\* File::open fails: the error is logged by the REQ loop, which goes on
OpenFails ==
    /\ pc = "open"
    /\ faults > 0
    /\ faults' = faults - 1
    /\ out' = out
    /\ EndReq("failed")
    /\ cur' = <<>>
    /\ pc' = "parse"
    /\ UNCHANGED <<fs, dir_name, trailers, result, envVars, buffer, received_fin,
                   statVars>>
    /\ UNCHANGED heard
    /\ UNCHANGED outsideDiffCopy

\* read returns n > 0 bytes: one DATA packet
ReadData ==
    /\ pc = "read"
    /\ LET c == cur[1]
           obj == Follow(c.path)
       IN /\ IsFile(obj)
          /\ c.off < obj.size
          /\ \E n \in ReadSizes(obj.size - c.off) :
                /\ out' = Append(out, DataPacket(c.id, obj, c.off, n))
                /\ cur' = <<[c EXCEPT !.off = c.off + n]>>
    /\ UNCHANGED <<fs, dir_name, pc, trailers, result, envVars, buffer,
                   received_fin, reqs, statVars, faults>>
    /\ UNCHANGED heard
    /\ UNCHANGED outsideDiffCopy

\* read returns 0: the empty DATA packet that ends the file
ReadEof ==
    /\ pc = "read"
    /\ LET c == cur[1]
           obj == Follow(c.path)
       IN /\ IsFile(obj)
          /\ c.off = obj.size
          /\ out' = Append(out, DataPacket(c.id, obj, c.off, 0))
    /\ EndReq("sent")
    /\ cur' = <<>>
    /\ pc' = "parse"
    /\ UNCHANGED <<fs, dir_name, trailers, result, envVars, buffer, received_fin,
                   statVars, faults>>
    /\ UNCHANGED heard
    /\ UNCHANGED outsideDiffCopy

\* read fails: the error is logged by the REQ loop, which goes on
ReadFails ==
    /\ pc = "read"
    /\ faults > 0
    /\ faults' = faults - 1
    /\ out' = out
    /\ EndReq("failed")
    /\ cur' = <<>>
    /\ pc' = "parse"
    /\ UNCHANGED <<fs, dir_name, trailers, result, envVars, buffer, received_fin,
                   statVars>>
    /\ UNCHANGED heard
    /\ UNCHANGED outsideDiffCopy

\* read of a directory fails (EISDIR), as any read error
ReadOfDirectory ==
    /\ pc = "read"
    /\ IsDir(Follow(cur[1].path))
    /\ out' = out
    /\ EndReq("failed")
    /\ cur' = <<>>
    /\ pc' = "parse"
    /\ UNCHANGED <<fs, dir_name, trailers, result, envVars, buffer, received_fin,
                   statVars, faults>>
    /\ UNCHANGED heard
    /\ UNCHANGED outsideDiffCopy

(***************************************************************************)
(* After the REQ loop: the FIN packet, then the trailers.                  *)
(***************************************************************************)
SendFinBad ==
    /\ pc = "fin"
    /\ pc' = "trailers"
    /\ UNCHANGED <<fs, dir_name, out, trailers, result, envVars, reqVars, statVars,
                   faults>>
    /\ UNCHANGED heard
    /\ UNCHANGED outsideDiffCopy

SendFin ==
    /\ pc = "fin"
    /\ out' = Append(out, FinPacket)
    /\ pc' = "trailers"
    /\ UNCHANGED <<fs, dir_name, trailers, result, envVars, reqVars, statVars,
                   faults>>
    /\ UNCHANGED heard
    /\ UNCHANGED outsideDiffCopy

SendTrailers ==
    /\ pc = "trailers"
    /\ trailers' = <<[status |-> 0, message |-> ""]>>
    /\ result' = "ok"
    /\ pc' = "done"
    /\ UNCHANGED <<fs, dir_name, out, envVars, reqVars, statVars, faults>>
    /\ UNCHANGED heard
    /\ UNCHANGED outsideDiffCopy

NextStat ==
    \/ StartDiffCopy
    \/ DockerfileMissing
    \/ DockerfileMetadataFails
    \/ StatDockerfile
    \/ ReadDir
    \/ ReadDirFails
    \/ SendStat
    \/ ReturnDfs
    \/ DfsDone
    \/ SendFinalStat

\* the dir-name header of the call: absent, "dockerfile", another value
DirNames == {<<>>, <<"dockerfile">>, <<"context">>}

InitHandler ==
    /\ pc = "start"
    /\ stack = <<>>
    /\ id_counter = 0
    /\ file_map = EmptyMap
    /\ out = <<>>
    /\ trailers = <<>>
    /\ result = "running"
    /\ wire = <<>>
    /\ closed = FALSE
    /\ buffer = <<>>
    /\ received_fin = FALSE
    /\ cur = <<>>
    /\ cut = CutLen
    /\ reqs = <<>>

InitCall == InitHandler /\ faults = MaxFaults /\ heard = <<>>

\* Session::new(): no service, nothing started
InitSession ==
    /\ config = <<>>
    /\ auth = <<>>
    /\ secrets = <<>>
    /\ added = <<>>
    /\ tpc = "setup"
    /\ request = <<>>
    /\ response = <<>>
    /\ returned = "none"

\* no build() is running
NoBuildCall ==
    /\ bpc = "idle"
    /\ handler = FALSE
    /\ build_ref = <<>>
    /\ rpcs = <<>>
    /\ solve = "none"
    /\ spawned = FALSE
    /\ stream = <<>>
    /\ calls = <<>>
    /\ bresult = <<>>

NoBuild == session = <<>> /\ file_sync = <<>> /\ NoBuildCall

\* no Platform is parsed, and no task of a session runs
NoTasks ==
    /\ inbound = "closed"
    /\ in_pump = "exited"
    /\ in_chan = 0
    /\ conn = "exited"
    /\ woken = FALSE
    /\ in_waker = FALSE
    /\ h2_waker = FALSE
    /\ out_buf = 0
    /\ htask = "none"
    /\ out_chan = 0
    /\ out_pump = "exited"
    /\ tx_chan = 0
    /\ session_tx = FALSE
    /\ rx = "dropped"
\* no message is on its way
NoPipe ==
    /\ d_budget = 0 /\ d_closed = TRUE /\ d_sent = <<>>
    /\ in_held = <<>> /\ in_alive = FALSE /\ inbound_ch = <<>> /\ received = <<>>
    /\ read_buffer = <<>> /\ read_pos = 0 /\ last_read = <<>> /\ delivered = <<>>
    /\ dropped = TRUE
    /\ w_budget = 0 /\ last_write = <<>> /\ written = <<>>
    /\ outbound_ch = <<>> /\ enqueued = <<>> /\ out_held = <<>> /\ out_alive = FALSE
    /\ outer_ch = <<>> /\ forwarded = <<>> /\ outer_open = FALSE
\* no stream is accepted
NoStreams == accepting = FALSE /\ h2_streams = <<>>
NoParse == input = <<>> /\ platform = <<>> /\ NoTasks /\ NoPipe /\ NoStreams

InitStat ==
    /\ InitSession
    /\ NoBuild /\ NoParse
    /\ fs \in StatTrees
    /\ dir_name \in DirNames
    /\ budget = 0
    /\ InitCall

SpecStat == InitStat /\ [][NextStat]_vars

NextReq ==
    \/ DaemonSend
    \/ DaemonClose
    \/ RecvChunk
    \/ RecvEnd
    \/ NeedMoreData
    \/ SkipCompressed
    \/ SkipUndecodable
    \/ ReqKnown
    \/ ReqUnknown
    \/ ReqFin
    \/ IgnorePacket
    \/ OpenFile
    \/ OpenFails
    \/ ReadData
    \/ ReadEof
    \/ ReadFails
    \/ ReadOfDirectory
    \/ SendFin
    \/ SendTrailers

Next == NextStat \/ NextReq

Init ==
    /\ InitSession
    /\ NoBuild /\ NoParse
    /\ fs \in ReqTrees
    /\ dir_name \in {<<>>, <<"dockerfile">>}
    /\ budget = MaxMsgs
    /\ InitCall

Spec == Init /\ [][Next]_vars

\* the calls in which no local I/O fails, with the history of the inbound
\* half kept
InitChunks ==
    /\ InitSession
    /\ NoBuild /\ NoParse
    /\ fs \in ReqTrees
    /\ dir_name \in {<<>>, <<"dockerfile">>}
    /\ budget = MaxMsgs
    /\ InitHandler
    /\ faults = 0
    /\ heard = <<[sent |-> <<>>, taken |-> <<>>]>>

NextChunks ==
    \/ StartDiffCopy \/ DockerfileMissing \/ StatDockerfile
    \/ ReadDir \/ SendStat \/ ReturnDfs \/ DfsDone \/ SendFinalStat
    \/ DaemonSend \/ DaemonClose
    \/ RecvChunk \/ RecvEnd \/ NeedMoreData
    \/ SkipCompressed \/ SkipUndecodable \/ ReqKnown \/ ReqUnknown \/ ReqFin \/ IgnorePacket
    \/ OpenFile \/ ReadData \/ ReadEof \/ ReadOfDirectory
    \/ SendFin \/ SendTrailers

SpecChunks == InitChunks /\ [][NextChunks]_vars

(***************************************************************************)
(* The services of a session.  Hosts, secret ids and request bodies are    *)
(* byte strings; the bytes of a secret are not stored: a secret is its     *)
(* length and a tag that tells two secrets apart.                          *)
(***************************************************************************)
\* most registries an AuthServer is given
MaxRegs == 2

HostDockerIo == <<100, 111, 99, 107, 101, 114, 46, 105, 111>>
HostRegistry1 == <<114, 101, 103, 105, 115, 116, 114, 121, 45, 49, 46>> \o HostDockerIo
HostIndex == <<105, 110, 100, 101, 120, 46>> \o HostDockerIo
HostGhcr == <<103, 104, 99, 114, 46, 105, 111>>

\* hosts that are registered, hosts that are asked for
RegisteredHosts == {HostDockerIo, HostRegistry1, HostGhcr}
RequestedHosts == {HostDockerIo, HostRegistry1, HostIndex, HostGhcr}

\* RegistryAuthConfig { host, username, password }; the n-th entry given to
\* an AuthServer has credentials of its own
Registry(host, n) == [host |-> host, username |-> <<"user", n>>, password |-> <<"pass", n>>]

\* str::contains
Contains(host, part) ==
    \E i \in 0..(Len(host) - Len(part)) : SubSeq(host, i + 1, i + Len(part)) = part

\* the closure given to find
Matches(r, host) ==
    \/ r.host = host
    \/ Contains(host, r.host)
    \/ (r.host = HostDockerIo /\ (host = HostRegistry1 \/ host = HostIndex))

\* AuthServer::find_credentials: registries.iter().find(..), <<>> for None
RECURSIVE FindCredentials(_, _)
FindCredentials(registries, host) ==
    IF registries = <<>> THEN <<>>
    ELSE IF Matches(Head(registries), host) THEN <<Head(registries)>>
    ELSE FindCredentials(Tail(registries), host)

\* CredentialsResponse { username, secret }
CredentialsResponse(username, secret) ==
    [type |-> "CredentialsResponse", username |-> username, secret |-> secret]
EmptyString == <<>>

\* AuthServer::credentials
Credentials(registries, host) ==
    LET found == FindCredentials(registries, host)
    IN IF found # <<>>
       THEN CredentialsResponse(found[1].username, found[1].password)
       ELSE CredentialsResponse(EmptyString, EmptyString)

\* const MAX_SECRET_SIZE: usize = 500 * 1024
MAX_SECRET_SIZE == 500 * 1024

\* the ids "k" and "t"
SecretIds == {<<107>>, <<116>>}

\* secrets by length: a short one, the longest allowed, one byte more
SecretData == {[size |-> 12, v |-> "a"],
               [size |-> MAX_SECRET_SIZE, v |-> "b"],
               [size |-> MAX_SECRET_SIZE + 1, v |-> "c"]}

\* HashMap<String, _> over the ids
SecretMaps(values) == UNION {[ids -> values] : ids \in SUBSET SecretIds}

\* data.len() > MAX_SECRET_SIZE is the refusal of add_secret
TooLargeBad(data) == data.size >= MAX_SECRET_SIZE
TooLarge(data) == data.size > MAX_SECRET_SIZE

\* HashMap::insert
Insert(map, id, data) == (id :> data) @@ map

(***************************************************************************)
(* Setting a session up: the callers of AuthServer, SecretsServer and      *)
(* Session, and build().                                                   *)
(***************************************************************************)
\* AuthServer::new(), registered with Session::add_auth
NewAuthServer ==
    /\ tpc = "setup"
    /\ config = <<>>
    /\ auth = <<>>
    /\ auth' = <<<<>>>>
    /\ UNCHANGED <<config, secrets, added, tpc, request, response, returned>>
    /\ UNCHANGED outsideSession

\* AuthServer::add_registry
AddRegistry ==
    /\ tpc = "setup"
    /\ auth # <<>>
    /\ Len(auth[1]) < MaxRegs
    /\ \E host \in RegisteredHosts :
           auth' = <<Append(auth[1], Registry(host, Len(auth[1]) + 1))>>
    /\ UNCHANGED <<config, secrets, added, tpc, request, response, returned>>
    /\ UNCHANGED outsideSession

\* SecretsServer::new(), registered with Session::add_secrets
NewSecretsServer ==
    /\ tpc = "setup"
    /\ config = <<>>
    /\ secrets = <<>>
    /\ secrets' = <<EmptyMap>>
    /\ added' = <<>>
    /\ UNCHANGED <<config, auth, tpc, request, response, returned>>
    /\ UNCHANGED outsideSession

\* the record of a call of the SecretsServer interface
Added(op, id, data, res) == <<[op |-> op, id |-> id, data |-> data, result |-> res]>>

\* SecretsServer::add_secret
AddSecretTo(op, id, data) ==
    IF TooLarge(data)
    THEN /\ added' = Added(op, id, data, "err")
         /\ secrets' = secrets
    ELSE /\ added' = Added(op, id, data, "ok")
         /\ secrets' = <<Insert(secrets[1], id, data)>>

AddSecret ==
    /\ tpc = "setup"
    /\ secrets # <<>>
    /\ \E id \in SecretIds, data \in SecretData : AddSecretTo("add_secret", id, data)
    /\ UNCHANGED <<config, auth, tpc, request, response, returned>>
    /\ UNCHANGED outsideSession

\* SecretsServer::add_secret_string: add_secret of the bytes of the string
AddSecretString ==
    /\ tpc = "setup"
    /\ secrets # <<>>
    /\ \E id \in SecretIds, value \in SecretData :
           AddSecretTo("add_secret_string", id, value)
    /\ UNCHANGED <<config, auth, tpc, request, response, returned>>
    /\ UNCHANGED outsideSession

\* the loop of from_map over the entries left: <<>> when an add_secret_string
\* fails, else the server
RECURSIVE FromMapLoop(_, _, _)
FromMapLoop(server, map, left) ==
    IF left = {} THEN <<server>>
    ELSE LET id == CHOOSE i \in left : TRUE
         IN IF TooLarge(map[id]) THEN <<>>
            ELSE FromMapLoop(Insert(server, id, map[id]), map, left \ {id})

\* SecretsServer::from_map
FromMap ==
    /\ tpc = "setup"
    /\ config = <<>>
    /\ secrets = <<>>
    /\ \E map \in SecretMaps(SecretData) :
           LET made == FromMapLoop(EmptyMap, map, DOMAIN map)
           IN /\ secrets' = made
              /\ added' = Added("from_map", <<>>, map, IF made = <<>> THEN "err" ELSE "ok")
    /\ UNCHANGED <<config, auth, tpc, request, response, returned>>
    /\ UNCHANGED outsideSession

\* Session::start: the tunnel gets the services registered so far
StartSession ==
    /\ tpc = "setup"
    /\ tpc' = "serving"
    /\ added' = <<>>
    /\ UNCHANGED <<config, auth, secrets, request, response, returned>>
    /\ UNCHANGED outsideSession

\* Session::add_file_sync
AddFileSync ==
    /\ tpc = "setup"
    /\ config = <<>>
    /\ file_sync = <<>>
    /\ file_sync' = <<"dir">>
    /\ UNCHANGED <<sessVars, session, diffCopyVars, buildVars, platVars, taskVars, pipeVars, multiVars>>

\* DockerfileSource: a local context_path, which names nothing, a file or a
\* directory, or a repository
Sources ==
    {[kind |-> "Local", context_path |-> p] : p \in {"missing", "file", "dir"}}
    \cup {[kind |-> "GitHub", context_path |-> "none"]}

\* BuildConfig: source, registry_auth and secrets, the fields sessions are
\* about
BuildConfigs ==
    [source : Sources,
     registry_auth : {<<>>} \cup {<<Registry(host, 1)>> : host \in RegisteredHosts},
     secrets : SecretMaps(SecretData)]

\* std::fs::canonicalize(context_path) of a local source succeeds
Canonicalizes(source) == source.kind = "Local" => source.context_path # "missing"

\* the services build() adds to its session: FileSync for a local source,
\* Auth for registry_auth
FileSyncOf(c) == IF c.source.kind = "Local" THEN <<c.source.context_path>> ELSE <<>>
AuthOf(c) == IF c.registry_auth # <<>> THEN <<c.registry_auth>> ELSE <<>>

\* BuildKitClient::build up to session.start, when it gets there:
\* Session::new(), add_file_sync, add_auth, start
Build ==
    /\ tpc = "setup"
    /\ auth = <<>> /\ secrets = <<>> /\ added = <<>> /\ file_sync = <<>>
    /\ \E c \in BuildConfigs :
           /\ Canonicalizes(c.source)
           /\ config' = <<c>>
           /\ file_sync' = FileSyncOf(c)
           /\ auth' = AuthOf(c)
    /\ tpc' = "serving"
    /\ UNCHANGED <<secrets, added, request, response, returned>>
    /\ UNCHANGED <<session, diffCopyVars, buildVars, platVars, taskVars, pipeVars, multiVars>>

\* the paths of the methods of a session
PathHealth == "/grpc.health.v1.Health/Check"
PathDiffCopy == "/moby.filesync.v1.FileSync/DiffCopy"
PathGetTokenAuthority == "/moby.filesync.v1.Auth/GetTokenAuthority"
PathCredentials == "/moby.filesync.v1.Auth/Credentials"
PathFetchToken == "/moby.filesync.v1.Auth/FetchToken"
PathGetSecret == "/moby.buildkit.secrets.v1.Secrets/GetSecret"
\* paths the session advertises and the tunnel does not route, and another
PathTarStream == "/moby.filesync.v1.FileSync/TarStream"
PathVerifyTokenAuthority == "/moby.filesync.v1.Auth/VerifyTokenAuthority"
PathOther == "/moby.buildkit.v1.Control/Solve"

(***************************************************************************)
(* The Session object and BuildKitClient::build.  Strings that are built   *)
(* from parts are sequences of their parts.                                *)
(***************************************************************************)
\* Uuid::new_v4()
Uuids == {1, 2}

\* Session::new(): the id and the shared key come from two UUIDs
NewSession(u, v) == [id |-> <<"uuid", u>>, shared_key |-> <<"session-", "uuid", v>>]
Sessions == {NewSession(u, v) : u \in Uuids, v \in Uuids}

KeyUuid == "X-Docker-Expose-Session-Uuid"
KeyName == "X-Docker-Expose-Session-Name"
KeySharedkey == "X-Docker-Expose-Session-Sharedkey"
KeyMethod == "X-Docker-Expose-Session-Grpc-Method"

\* Session::metadata: key -> values
MetadataBad(sess) ==
    [key \in {KeyUuid, KeyName, KeySharedkey, KeyMethod} |->
        IF key = KeyUuid THEN <<sess.id>>
        ELSE IF key \in {KeyName, KeySharedkey} THEN <<sess.shared_key>>
        ELSE <<PathHealth>>
             \o (IF file_sync # <<>> THEN <<PathDiffCopy, PathTarStream>> ELSE <<>>)
             \o (IF auth # <<>>
                 THEN <<PathCredentials, PathFetchToken, PathGetTokenAuthority,
                        PathVerifyTokenAuthority>>
                 ELSE <<>>)
             \o (IF secrets # <<>> THEN <<PathGetSecret>> ELSE <<>>)]
Metadata(sess) ==
    [key \in {KeyUuid, KeyName, KeySharedkey, KeyMethod} |->
        IF key = KeyUuid THEN <<sess.id>>
        ELSE IF key \in {KeyName, KeySharedkey} THEN <<sess.shared_key>>
        ELSE <<PathHealth, PathDiffCopy, PathTarStream, PathCredentials, PathFetchToken,
               PathGetTokenAuthority, PathVerifyTokenAuthority, PathGetSecret>>]

\* key.parse::<MetadataKey<Ascii>>(): a header name is kept in lower case
MetadataKey(key) ==
    IF key = KeyUuid THEN "x-docker-expose-session-uuid"
    ELSE IF key = KeyName THEN "x-docker-expose-session-name"
    ELSE IF key = KeySharedkey THEN "x-docker-expose-session-sharedkey"
    ELSE "x-docker-expose-session-grpc-method"

\* the loop that appends the metadata of the session to the headers of a
\* request: name -> values, in the order they were appended
AppendMetadata(meta) ==
    [name \in {MetadataKey(key) : key \in DOMAIN meta} |->
        meta[CHOOSE key \in DOMAIN meta : MetadataKey(key) = name]]

\* build(): the build reference, Session::new(), canonicalize and
\* add_file_sync for a local source, add_auth for registry_auth
BuildSession ==
    /\ bpc = "idle"
    /\ \E c \in BuildConfigs, sess \in Sessions, h \in BOOLEAN :
           /\ config' = <<c>>
           /\ handler' = h
           /\ build_ref' = <<"build-", "uuid", 1>>
           /\ session' = <<sess>>
           /\ IF Canonicalizes(c.source)
              THEN /\ file_sync' = FileSyncOf(c)
                   /\ auth' = AuthOf(c)
                   /\ bpc' = "start"
                   /\ bresult' = <<>>
              ELSE /\ file_sync' = <<>>
                   /\ auth' = <<>>
                   /\ bpc' = "done"
                   /\ bresult' = <<[ok |-> FALSE, error |-> "Failed to resolve context path"]>>
    /\ UNCHANGED <<secrets, added, tpc, request, response, returned>>
    /\ UNCHANGED <<rpcs, solve, spawned, stream, calls>>
    /\ UNCHANGED <<diffCopyVars, platVars, taskVars, pipeVars, multiVars>>

\* a call on the control channel, and the end of one
Rpc(rpc, headers, message) == [rpc |-> rpc, headers |-> headers, message |-> message]
RpcEnd(rpc, ok) == [rpc |-> rpc, headers |-> <<>>, message |-> ok]

\* Session::start: the Session call with the metadata of the session; when
\* the daemon answers it the three tasks are spawned
SessionStart ==
    /\ bpc = "start"
    /\ rpcs' = Append(rpcs, Rpc("Session", AppendMetadata(Metadata(session[1])), "stream"))
    /\ \E ok \in BOOLEAN :
           IF ok
           THEN /\ spawned' = TRUE
                /\ tpc' = "serving"
                /\ bpc' = "request"
                /\ bresult' = bresult
           ELSE /\ spawned' = spawned
                /\ tpc' = tpc
                /\ bpc' = "done"
                /\ bresult' = <<[ok |-> FALSE, error |-> "Failed to start session"]>>
    /\ UNCHANGED <<config, auth, secrets, added, request, response, returned>>
    /\ UNCHANGED <<handler, build_ref, solve, stream, calls>>
    /\ UNCHANGED <<objVars, diffCopyVars, platVars, taskVars, pipeVars, multiVars>>

\* FileSync::validate
Validate(context_path) == context_path = "dir"

\* prepare_context for a source that is accepted
PrepareContextBad(source, sess) ==
    IF source.kind = "Local"
    THEN <<"input:">> \o sess.id \o <<":context">>
    ELSE <<"git-url">>
PrepareContext(source, sess) ==
    IF source.kind = "Local"
    THEN <<"input:">> \o sess.shared_key \o <<":context">>
    ELSE <<"git-url">>

\* the SolveRequest of build(): the fields sessions are about
SolveRequestBad(ref, sess, context) ==
    [ref |-> ref, session |-> sess.shared_key, frontend |-> "dockerfile.v0",
     frontend_attrs |-> [k \in {"context"} |-> context]]
SolveRequest(ref, sess, context) ==
    [ref |-> ref, session |-> sess.id, frontend |-> "dockerfile.v0",
     frontend_attrs |-> [k \in {"context"} |-> context]]

\* build() from the frontend attributes to the Solve call: prepare_context
\* fails for a context that is no directory, else the request is sent with
\* the metadata of the session
SendSolve ==
    /\ bpc = "request"
    /\ LET source == config[1].source
       IN IF source.kind = "Local" /\ ~Validate(source.context_path)
          THEN /\ bpc' = "done"
               /\ bresult' = <<[ok |-> FALSE, error |-> "Failed to validate context path"]>>
               /\ UNCHANGED <<rpcs, solve>>
          ELSE /\ rpcs' = Append(rpcs,
                                 Rpc("Solve", AppendMetadata(Metadata(session[1])),
                                     SolveRequest(build_ref, session[1],
                                                  PrepareContext(source, session[1]))))
               /\ solve' = "in_flight"
               /\ bpc' = "solve"
               /\ bresult' = bresult
    /\ UNCHANGED <<handler, build_ref, spawned, stream, calls>>
    /\ UNCHANGED <<sessVars, objVars, diffCopyVars, platVars, taskVars, pipeVars, multiVars>>

\* control.solve(..).await: build() goes on when the daemon has answered
SolveReturns ==
    /\ bpc = "solve"
    /\ \E ok \in BOOLEAN :
           /\ rpcs' = Append(rpcs, RpcEnd("SolveEnd", ok))
           /\ IF ~ok
              THEN /\ solve' = "err"
                   /\ bpc' = "done"
                   /\ bresult' = <<[ok |-> FALSE, error |-> "Failed to execute solve"]>>
              ELSE /\ solve' = "ok"
                   /\ IF handler
                      THEN bpc' = "status" /\ bresult' = bresult
                      ELSE bpc' = "done" /\ bresult' = <<[ok |-> TRUE, error |-> ""]>>
    /\ UNCHANGED <<handler, build_ref, spawned, stream, calls>>
    /\ UNCHANGED <<sessVars, objVars, diffCopyVars, platVars, taskVars, pipeVars, multiVars>>

\* most items of a Status stream
MaxEvents == 2

\* what a Status stream yields: status events, and at most an error, after
\* which it yields nothing
RECURSIVE StatusStreams(_)
StatusStreams(n) ==
    IF n = 0 THEN {<<>>}
    ELSE LET shorter == StatusStreams(n - 1)
             events == {str \in shorter : \A i \in 1..Len(str) : str[i].ok}
         IN shorter
            \cup {Append(str, [ok |-> TRUE, item |-> <<"status", Len(str) + 1>>]) :
                      str \in events}
            \cup {Append(str, [ok |-> FALSE, item |-> <<"stream error">>]) : str \in events}

\* a call on the progress handler, and whether it returned Ok
Call(method, argument, ok) == [method |-> method, argument |-> argument, ok |-> ok]

\* the end of monitor_progress and of build() after it
Monitored(ok) ==
    /\ bpc' = "done"
    /\ bresult' = <<[ok |-> ok, error |-> IF ok THEN "" ELSE "handler error"]>>

\* monitor_progress: the Status call and on_start
StatusOpen ==
    /\ bpc = "status"
    /\ rpcs' = Append(rpcs, Rpc("Status", <<>>, [ref |-> build_ref]))
    /\ \E opened \in BOOLEAN :
           IF ~opened
           THEN /\ bpc' = "done"
                /\ bresult' = <<[ok |-> FALSE, error |-> "Failed to get status stream"]>>
                /\ UNCHANGED <<stream, calls>>
           ELSE \E str \in StatusStreams(MaxEvents), ok \in BOOLEAN :
                    /\ stream' = str
                    /\ calls' = Append(calls, Call("on_start", <<>>, ok))
                    /\ IF ok THEN bpc' = "monitor" /\ bresult' = bresult
                       ELSE Monitored(FALSE)
    /\ UNCHANGED <<handler, build_ref, solve, spawned>>
    /\ UNCHANGED <<sessVars, objVars, diffCopyVars, platVars, taskVars, pipeVars, multiVars>>

\* monitor_progress: one turn of the loop over the stream
StatusNext ==
    /\ bpc = "monitor"
    /\ stream # <<>>
    /\ stream' = Tail(stream)
    /\ \E ok \in BOOLEAN :
           IF Head(stream).ok
           THEN /\ calls' = Append(calls, Call("on_status", Head(stream).item, ok))
                /\ IF ok THEN bpc' = "monitor" /\ bresult' = bresult
                   ELSE Monitored(FALSE)
           ELSE /\ calls' = Append(calls, Call("on_error", Head(stream).item, ok))
                /\ IF ok THEN bpc' = "complete" /\ bresult' = bresult
                   ELSE Monitored(FALSE)
    /\ UNCHANGED <<handler, build_ref, rpcs, solve, spawned>>
    /\ UNCHANGED <<sessVars, objVars, diffCopyVars, platVars, taskVars, pipeVars, multiVars>>

\* monitor_progress: the stream has ended
StatusEndBad ==
    /\ bpc = "monitor"
    /\ stream = <<>>
    /\ Monitored(TRUE)
    /\ UNCHANGED <<handler, build_ref, rpcs, solve, spawned, stream, calls>>
    /\ UNCHANGED <<sessVars, objVars, diffCopyVars, platVars, taskVars, pipeVars, multiVars>>
StatusEnd ==
    /\ bpc = "monitor"
    /\ stream = <<>>
    /\ bpc' = "complete"
    /\ UNCHANGED <<handler, build_ref, rpcs, solve, spawned, stream, calls, bresult>>
    /\ UNCHANGED <<sessVars, objVars, diffCopyVars, platVars, taskVars, pipeVars, multiVars>>

\* monitor_progress: on_complete, and the end of build()
OnComplete ==
    /\ bpc = "complete"
    /\ \E ok \in BOOLEAN :
           /\ calls' = Append(calls, Call("on_complete", <<>>, ok))
           /\ Monitored(ok)
    /\ UNCHANGED <<handler, build_ref, rpcs, solve, spawned, stream>>
    /\ UNCHANGED <<sessVars, objVars, diffCopyVars, platVars, taskVars, pipeVars, multiVars>>

InitBuild ==
    /\ InitSession
    /\ NoBuild /\ NoParse
    /\ fs = {}
    /\ dir_name = <<>>
    /\ budget = 0
    /\ InitCall

NextBuild ==
    \/ BuildSession \/ SessionStart \/ SendSolve \/ SolveReturns
    \/ StatusOpen \/ StatusNext \/ StatusEnd \/ OnComplete

SpecBuild == InitBuild /\ [][NextBuild]_vars

(***************************************************************************)
(* Platform: a string of bytes is parsed, a Platform is written back.      *)
(***************************************************************************)
\* longest string given to Platform::parse
MaxPlatform == 5

\* the strings over '/', 'a' and 'l' up to a length
RECURSIVE PlatformStrings(_)
PlatformStrings(n) ==
    IF n = 0 THEN {<<>>}
    ELSE LET shorter == PlatformStrings(n - 1)
         IN shorter \cup {Append(str, c) : str \in shorter, c \in {Slash, 97, 108}}

\* str::split('/'): the parts between the separators, at least one
RECURSIVE Split(_)
Split(str) ==
    IF \A i \in 1..Len(str) : str[i] # Slash THEN <<str>>
    ELSE LET at == CHOOSE i \in 1..Len(str) :
                       str[i] = Slash /\ \A k \in 1..(i - 1) : str[k] # Slash
         IN <<SubSeq(str, 1, at - 1)>> \o Split(SubSeq(str, at + 1, Len(str)))

\* Platform::parse: variant is an Option
PlatformParse(str) ==
    LET parts == Split(str)
    IN IF Len(parts) = 2
       THEN [ok |-> TRUE, os |-> parts[1], arch |-> parts[2], variant |-> <<>>]
       ELSE IF Len(parts) = 3
       THEN [ok |-> TRUE, os |-> parts[1], arch |-> parts[2], variant |-> <<parts[3]>>]
       ELSE [ok |-> FALSE, os |-> <<>>, arch |-> <<>>, variant |-> <<>>]

\* Platform::to_string
PlatformToStringBad(p) ==
    IF p.variant # <<>> /\ p.variant[1] # <<>>
    THEN p.os \o <<Slash>> \o p.arch \o <<Slash>> \o p.variant[1]
    ELSE p.os \o <<Slash>> \o p.arch
PlatformToString(p) ==
    IF p.variant # <<>>
    THEN p.os \o <<Slash>> \o p.arch \o <<Slash>> \o p.variant[1]
    ELSE p.os \o <<Slash>> \o p.arch

\* a call of Platform::parse
Parse ==
    /\ platform = <<>>
    /\ platform' = <<PlatformParse(input)>>
    /\ UNCHANGED <<input, diffCopyVars, sessVars, objVars, buildVars, taskVars, pipeVars, multiVars>>

InitPlatform ==
    /\ InitSession
    /\ NoBuild
    /\ input \in PlatformStrings(MaxPlatform)
    /\ platform = <<>>
    /\ NoTasks /\ NoPipe /\ NoStreams
    /\ fs = {}
    /\ dir_name = <<>>
    /\ budget = 0
    /\ InitCall

SpecPlatform == InitPlatform /\ [][Parse]_vars

(***************************************************************************)
(* The tasks Session::start spawns: the inbound pump, the outbound pump    *)
(* and the tunnel server with its handler tasks, and the three channels    *)
(* between them.  A task that returned Pending runs again when a waker it  *)
(* registered is woken.                                                    *)
(***************************************************************************)
\* capacity of a channel (128 in the code), frames the connection buffers
ChannelCap == 1
MaxBuf == 2

\* the receiver of the inbound channel got a message, or its last sender
\* was dropped: the task that waits for it is woken
WakeInbound ==
    IF in_waker THEN woken' = TRUE /\ in_waker' = FALSE
    ELSE UNCHANGED <<woken, in_waker>>

\* a handler queued a frame or dropped its stream: the connection task is
\* notified if it left its waker with the streams
WakeStreams ==
    IF h2_waker /\ conn # "exited" THEN woken' = TRUE /\ h2_waker' = FALSE
    ELSE UNCHANGED <<woken, h2_waker>>

\* the daemon sends a message on the Session stream: inbound.message()
\* of the inbound pump yields it
SessionMessage ==
    /\ inbound = "open"
    /\ in_pump = "recv"
    /\ in_pump' = "send"
    /\ UNCHANGED <<inbound, in_chan, conn, woken, in_waker, h2_waker, out_buf, htask,
                   out_chan, out_pump, tx_chan, session_tx, rx>>
    /\ UNCHANGED <<diffCopyVars, sessVars, objVars, buildVars, platVars, pipeVars, multiVars>>

\* the daemon ends its half of the Session stream
SessionClose ==
    /\ inbound = "open"
    /\ inbound' = "closed"
    /\ UNCHANGED <<in_pump, in_chan, conn, woken, in_waker, h2_waker, out_buf, htask,
                   out_chan, out_pump, tx_chan, session_tx, rx>>
    /\ UNCHANGED <<diffCopyVars, sessVars, objVars, buildVars, platVars, pipeVars, multiVars>>

\* inbound pump: inbound_tx.send(msg).await, which waits for room and fails
\* when the receiver is gone
InPumpSend ==
    /\ in_pump = "send"
    /\ IF conn = "exited"
       THEN in_pump' = "exited" /\ UNCHANGED <<in_chan, woken, in_waker>>
       ELSE /\ in_chan < ChannelCap
            /\ in_chan' = in_chan + 1
            /\ in_pump' = "recv"
            /\ WakeInbound
    /\ UNCHANGED <<inbound, conn, h2_waker, out_buf, htask, out_chan, out_pump, tx_chan,
                   session_tx, rx>>
    /\ UNCHANGED <<diffCopyVars, sessVars, objVars, buildVars, platVars, pipeVars, multiVars>>

\* inbound pump: the stream has ended, the loop ends and inbound_tx is
\* dropped
InPumpEnd ==
    /\ in_pump = "recv"
    /\ inbound = "closed"
    /\ in_pump' = "exited"
    /\ WakeInbound
    /\ UNCHANGED <<inbound, in_chan, conn, h2_waker, out_buf, htask, out_chan, out_pump,
                   tx_chan, session_tx, rx>>
    /\ UNCHANGED <<diffCopyVars, sessVars, objVars, buildVars, platVars, pipeVars, multiVars>>

\* serve: server::handshake(stream).await reads the preface of the daemon
ConnHandshake ==
    /\ conn = "handshake"
    /\ woken
    /\ IF in_chan > 0
       THEN /\ in_chan' = in_chan - 1
            /\ conn' = "open"
            /\ out_buf' = 1
            /\ UNCHANGED <<woken, in_waker>>
       ELSE IF in_pump # "exited"
       THEN /\ in_waker' = TRUE
            /\ woken' = FALSE
            /\ UNCHANGED <<in_chan, conn, out_buf>>
       ELSE /\ conn' = "exited"
            /\ woken' = FALSE
            /\ UNCHANGED <<in_chan, in_waker, out_buf>>
    /\ UNCHANGED <<inbound, in_pump, h2_waker, htask, out_chan, out_pump, tx_chan,
                   session_tx, rx>>
    /\ UNCHANGED <<diffCopyVars, sessVars, objVars, buildVars, platVars, pipeVars, multiVars>>

\* serve, in h2_conn.accept(): MessageStream::poll_read takes a message; it
\* is a frame the connection answers, a request (a handler task is
\* spawned), or data for a handler that waits
ConnRead ==
    /\ conn = "open"
    /\ woken
    /\ in_chan > 0
    /\ in_chan' = in_chan - 1
    /\ \/ /\ out_buf' = IF out_buf < MaxBuf THEN out_buf + 1 ELSE out_buf
          /\ htask' = htask
       \/ /\ htask \in {"none", "waiting"}
          /\ htask' = "sending"
          /\ out_buf' = out_buf
    /\ UNCHANGED <<inbound, in_pump, conn, woken, in_waker, h2_waker, out_chan, out_pump,
                   tx_chan, session_tx, rx>>
    /\ UNCHANGED <<diffCopyVars, sessVars, objVars, buildVars, platVars, pipeVars, multiVars>>

\* serve, in h2_conn.accept(), once poll_read has no message: at the end of
\* the inbound channel the streams are failed and the connection closes
\* after a flush, else the waker is left with inbound_rx; then the buffered
\* frames are written with MessageStream::poll_write, which fails when the
\* receiver is gone and, when the channel is full, returns Pending and
\* leaves no waker with the channel
ConnWrite ==
    /\ conn \in {"open", "closing"}
    /\ woken
    /\ in_chan = 0
    /\ LET eof == conn = "closing" \/ in_pump = "exited"
           fits == IF out_buf <= ChannelCap - out_chan THEN out_buf
                   ELSE ChannelCap - out_chan
       IN /\ htask' = IF eof /\ htask \in {"sending", "waiting"} THEN "failing" ELSE htask
          /\ IF out_buf > 0 /\ out_pump = "exited"
             THEN /\ conn' = "exited"
                  /\ woken' = FALSE
                  /\ out_buf' = 0
                  /\ UNCHANGED <<out_chan, in_waker, h2_waker>>
             ELSE /\ out_chan' = out_chan + fits
                  /\ IF out_buf > fits
                     THEN /\ out_buf' = out_buf - fits
                          /\ conn' = IF eof THEN "closing" ELSE "open"
                          /\ woken' = FALSE
                          /\ in_waker' = ~eof
                          /\ UNCHANGED h2_waker
                     ELSE /\ out_buf' = 0
                          /\ conn' = IF eof THEN "exited" ELSE "open"
                          /\ woken' = FALSE
                          /\ in_waker' = ~eof
                          /\ h2_waker' = ~eof
    /\ UNCHANGED <<inbound, in_pump, in_chan, out_pump, tx_chan, session_tx, rx>>
    /\ UNCHANGED <<diffCopyVars, sessVars, objVars, buildVars, platVars, pipeVars, multiVars>>

\* a handler task sends a frame, and goes on sending, waits for the daemon
\* (DiffCopy between two REQs) or returns
HandlerSend ==
    /\ htask = "sending"
    /\ conn = "open"
    /\ out_buf' = IF out_buf < MaxBuf THEN out_buf + 1 ELSE out_buf
    /\ htask' \in {"sending", "waiting", "none"}
    /\ WakeStreams
    /\ UNCHANGED <<inbound, in_pump, in_chan, conn, in_waker, out_chan, out_pump, tx_chan,
                   session_tx, rx>>
    /\ UNCHANGED <<diffCopyVars, sessVars, objVars, buildVars, platVars, pipeVars, multiVars>>

\* a handler task whose stream was failed, by the end of the inbound
\* channel or by the drop of the connection, returns
HandlerEnd ==
    /\ \/ htask = "failing"
       \/ htask \in {"sending", "waiting"} /\ conn = "exited"
    /\ htask' = "none"
    /\ WakeStreams
    /\ UNCHANGED <<inbound, in_pump, in_chan, conn, in_waker, out_buf, out_chan, out_pump,
                   tx_chan, session_tx, rx>>
    /\ UNCHANGED <<diffCopyVars, sessVars, objVars, buildVars, platVars, pipeVars, multiVars>>

\* outbound pump: outbound_rx.recv().await, which ends the loop when the
\* channel is empty and outbound_tx, in the MessageStream, was dropped
OutPumpRecv ==
    /\ out_pump = "recv"
    /\ IF out_chan > 0
       THEN out_chan' = out_chan - 1 /\ out_pump' = "send"
       ELSE conn = "exited" /\ out_pump' = "exited" /\ out_chan' = out_chan
    /\ UNCHANGED <<inbound, in_pump, in_chan, conn, woken, in_waker, h2_waker, out_buf,
                   htask, tx_chan, session_tx, rx>>
    /\ UNCHANGED <<diffCopyVars, sessVars, objVars, buildVars, platVars, pipeVars, multiVars>>

\* outbound pump: tx_clone.send(msg).await, which waits for room and fails
\* when the receiver is gone
OutPumpSend ==
    /\ out_pump = "send"
    /\ IF rx # "open"
       THEN out_pump' = "exited" /\ out_chan' = 0 /\ tx_chan' = tx_chan
       ELSE /\ tx_chan < ChannelCap
            /\ tx_chan' = tx_chan + 1
            /\ out_pump' = "recv"
            /\ out_chan' = out_chan
    /\ UNCHANGED <<inbound, in_pump, in_chan, conn, woken, in_waker, h2_waker, out_buf,
                   htask, session_tx, rx>>
    /\ UNCHANGED <<diffCopyVars, sessVars, objVars, buildVars, platVars, pipeVars, multiVars>>

\* build() returns and its Session is dropped, and Session::tx with it
BuildReturns ==
    /\ session_tx
    /\ session_tx' = FALSE
    /\ UNCHANGED <<inbound, in_pump, in_chan, conn, woken, in_waker, h2_waker, out_buf,
                   htask, out_chan, out_pump, tx_chan, rx>>
    /\ UNCHANGED <<diffCopyVars, sessVars, objVars, buildVars, platVars, pipeVars, multiVars>>

\* the outbound stream of Session::start, polled by the transport:
\* rx.recv() yields a message, or None when every sender was dropped
RxNext ==
    /\ rx = "open"
    /\ IF tx_chan > 0
       THEN tx_chan' = tx_chan - 1 /\ rx' = rx
       ELSE ~session_tx /\ out_pump = "exited" /\ rx' = "ended" /\ tx_chan' = tx_chan
    /\ UNCHANGED <<inbound, in_pump, in_chan, conn, woken, in_waker, h2_waker, out_buf,
                   htask, out_chan, out_pump, session_tx>>
    /\ UNCHANGED <<diffCopyVars, sessVars, objVars, buildVars, platVars, pipeVars, multiVars>>

\* the transport drops the outbound stream of a call the daemon has ended
RxDrop ==
    /\ rx = "open"
    /\ inbound = "closed"
    /\ rx' = "dropped"
    /\ tx_chan' = 0
    /\ UNCHANGED <<inbound, in_pump, in_chan, conn, woken, in_waker, h2_waker, out_buf,
                   htask, out_chan, out_pump, session_tx>>
    /\ UNCHANGED <<diffCopyVars, sessVars, objVars, buildVars, platVars, pipeVars, multiVars>>

\* Session::start has returned Ok: the three tasks are spawned, the
\* channels are empty
InitTasks ==
    /\ InitSession
    /\ NoBuild
    /\ input = <<>> /\ platform = <<>>
    /\ fs = {}
    /\ dir_name = <<>>
    /\ budget = 0
    /\ InitCall
    /\ inbound = "open"
    /\ in_pump = "recv"
    /\ in_chan = 0
    /\ conn = "handshake"
    /\ woken = TRUE
    /\ in_waker = FALSE
    /\ h2_waker = FALSE
    /\ out_buf = 0
    /\ htask = "none"
    /\ out_chan = 0
    /\ out_pump = "recv"
    /\ tx_chan = 0
    /\ session_tx = TRUE
    /\ rx = "open"
    /\ NoPipe /\ NoStreams

NextTasks ==
    \/ SessionMessage \/ SessionClose
    \/ InPumpSend \/ InPumpEnd
    \/ ConnHandshake \/ ConnRead \/ ConnWrite
    \/ HandlerSend \/ HandlerEnd
    \/ OutPumpRecv \/ OutPumpSend
    \/ BuildReturns \/ RxNext \/ RxDrop

\* the runtime runs every task that can run, and the transport polls the
\* outbound stream; the daemon and the caller of build() owe nothing
FairTasks ==
    /\ WF_vars(InPumpSend) /\ WF_vars(InPumpEnd)
    /\ WF_vars(ConnHandshake) /\ WF_vars(ConnRead) /\ WF_vars(ConnWrite)
    /\ WF_vars(HandlerSend) /\ WF_vars(HandlerEnd)
    /\ WF_vars(OutPumpRecv) /\ WF_vars(OutPumpSend)
    /\ WF_vars(RxNext) /\ WF_vars(RxDrop)

SpecTasks == InitTasks /\ [][NextTasks]_vars /\ FairTasks

(***************************************************************************)
(* The same tasks with the messages they carry: what the daemon sends goes *)
(* through the inbound pump and the inbound channel to the reads of the    *)
(* MessageStream, what is written to the MessageStream goes through the    *)
(* outbound channel and the outbound pump to the Session call.  A message  *)
(* is its payload, a byte string.                                          *)
(***************************************************************************)
\* messages of the daemon, writes of the connection, bytes a read may ask for
MaxSent == 2
MaxWrites == 2
MaxRead == 2

\* payloads of the daemon: empty, shorter and longer than a read may ask
\* for; buffers the connection writes
Payloads == {<<>>, <<1>>, <<2, 3, 4>>}
Buffers == {<<5>>, <<6, 7>>}

\* Sender::try_send on a bounded channel: closed is tested before room
TrySendBad(ch, gone, msg) ==
    IF Len(ch) >= ChannelCap THEN [res |-> "full", ch |-> ch]
    ELSE [res |-> "ok", ch |-> Append(ch, msg)]

TrySend(ch, gone, msg) ==
    IF gone THEN [res |-> "closed", ch |-> ch]
    ELSE IF Len(ch) >= ChannelCap THEN [res |-> "full", ch |-> ch]
    ELSE [res |-> "ok", ch |-> Append(ch, msg)]

\* the daemon sends a message: inbound.message() of the inbound pump
\* yields it
PipeMessage ==
    /\ ~d_closed
    /\ d_budget > 0
    /\ in_alive /\ in_held = <<>>
    /\ d_budget' = d_budget - 1
    /\ \E m \in Payloads :
          /\ in_held' = <<m>>
          /\ d_sent' = Append(d_sent, m)
    /\ UNCHANGED <<d_closed, in_alive, inbound_ch, received, read_buffer, read_pos,
                   last_read, delivered, dropped, w_budget, last_write, written,
                   outbound_ch, enqueued, out_held, out_alive, outer_ch, forwarded,
                   outer_open>>
    /\ UNCHANGED <<diffCopyVars, sessVars, objVars, buildVars, platVars, taskVars, multiVars>>

\* the daemon ends its half of the Session stream
PipeClose ==
    /\ ~d_closed
    /\ d_closed' = TRUE
    /\ UNCHANGED <<d_budget, d_sent, in_held, in_alive, inbound_ch, received, read_buffer,
                   read_pos, last_read, delivered, dropped, w_budget, last_write, written,
                   outbound_ch, enqueued, out_held, out_alive, outer_ch, forwarded,
                   outer_open>>
    /\ UNCHANGED <<diffCopyVars, sessVars, objVars, buildVars, platVars, taskVars, multiVars>>

\* inbound pump: inbound_tx.send(msg).await; an error ends the loop
InboundSendBad ==
    /\ in_held # <<>>
    /\ IF dropped
       THEN in_alive' = FALSE /\ inbound_ch' = inbound_ch
       ELSE /\ Len(inbound_ch) < ChannelCap
            /\ inbound_ch' = Append(inbound_ch, in_held[1])
            /\ in_alive' = in_alive
    /\ in_held' = IF dropped THEN <<>> ELSE in_held
    /\ UNCHANGED <<d_budget, d_closed, d_sent, received, read_buffer, read_pos, last_read,
                   delivered, dropped, w_budget, last_write, written, outbound_ch,
                   enqueued, out_held, out_alive, outer_ch, forwarded, outer_open>>
    /\ UNCHANGED <<diffCopyVars, sessVars, objVars, buildVars, platVars, taskVars, multiVars>>

InboundSend ==
    /\ in_held # <<>>
    /\ IF dropped
       THEN in_alive' = FALSE /\ inbound_ch' = inbound_ch
       ELSE /\ Len(inbound_ch) < ChannelCap
            /\ inbound_ch' = Append(inbound_ch, in_held[1])
            /\ in_alive' = in_alive
    /\ in_held' = <<>>
    /\ UNCHANGED <<d_budget, d_closed, d_sent, received, read_buffer, read_pos, last_read,
                   delivered, dropped, w_budget, last_write, written, outbound_ch,
                   enqueued, out_held, out_alive, outer_ch, forwarded, outer_open>>
    /\ UNCHANGED <<diffCopyVars, sessVars, objVars, buildVars, platVars, taskVars, multiVars>>

\* inbound pump: inbound.message() yields no message any more, the loop
\* ends and inbound_tx is dropped
InboundEnd ==
    /\ in_alive /\ in_held = <<>>
    /\ d_closed
    /\ in_alive' = FALSE
    /\ UNCHANGED <<d_budget, d_closed, d_sent, in_held, inbound_ch, received, read_buffer,
                   read_pos, last_read, delivered, dropped, w_budget, last_write, written,
                   outbound_ch, enqueued, out_held, out_alive, outer_ch, forwarded,
                   outer_open>>
    /\ UNCHANGED <<diffCopyVars, sessVars, objVars, buildVars, platVars, taskVars, multiVars>>

\* to_copy of poll_read: len.min(buf.remaining())
ToCopy(len, room) == IF len <= room THEN len ELSE room

\* &self.read_buffer[self.read_pos..]
RemainingBad(buf, pos) == buf
Remaining(buf, pos) == SubSeq(buf, pos + 1, Len(buf))

\* what a poll_read finds and reports: the bytes put into the caller's
\* buffer, whether the channel was closed and whether bytes or messages
\* were at hand
ReadReport(copied, res) ==
    <<[copied |-> copied, result |-> res,
       closed |-> ~in_alive,
       had |-> read_pos < Len(read_buffer) \/ inbound_ch # <<>>]>>

\* MessageStream::poll_read with room for size bytes in buf
PollRead ==
    /\ ~dropped
    /\ \E size \in 1..MaxRead :
          IF read_pos < Len(read_buffer)
          THEN LET remaining == Remaining(read_buffer, read_pos)
                   to_copy == ToCopy(Len(remaining), size)
               IN /\ delivered' = delivered \o SubSeq(remaining, 1, to_copy)
                  /\ IF read_pos + to_copy >= Len(read_buffer)
                     THEN read_buffer' = <<>> /\ read_pos' = 0
                     ELSE read_buffer' = read_buffer /\ read_pos' = read_pos + to_copy
                  /\ last_read' = ReadReport(to_copy, "ready")
                  /\ UNCHANGED <<inbound_ch, received>>
          ELSE IF inbound_ch # <<>>
          THEN LET msg == Head(inbound_ch)
                   to_copy == ToCopy(Len(msg), size)
               IN /\ inbound_ch' = Tail(inbound_ch)
                  /\ received' = Append(received, msg)
                  /\ read_buffer' = msg
                  /\ delivered' = delivered \o SubSeq(msg, 1, to_copy)
                  /\ read_pos' = to_copy
                  /\ last_read' = ReadReport(to_copy, "ready")
          ELSE /\ last_read' = ReadReport(0, IF in_alive THEN "pending" ELSE "ready")
               /\ UNCHANGED <<inbound_ch, received, read_buffer, read_pos, delivered>>
    /\ UNCHANGED <<d_budget, d_closed, d_sent, in_held, in_alive, dropped, w_budget,
                   last_write, written, outbound_ch, enqueued, out_held, out_alive,
                   outer_ch, forwarded, outer_open>>
    /\ UNCHANGED <<diffCopyVars, sessVars, objVars, buildVars, platVars, taskVars, multiVars>>

\* what poll_write returns for what try_send returned
WriteResultBad(res, len) ==
    IF res = "ok" THEN [result |-> "ok", n |-> IF len > 1 THEN 1 ELSE len]
    ELSE IF res = "full" THEN [result |-> "pending", n |-> 0]
    ELSE [result |-> "broken_pipe", n |-> 0]

WriteResult(res, len) ==
    IF res = "ok" THEN [result |-> "ok", n |-> len]
    ELSE IF res = "full" THEN [result |-> "pending", n |-> 0]
    ELSE [result |-> "broken_pipe", n |-> 0]

\* MessageStream::poll_write of a buffer
PollWrite ==
    /\ ~dropped
    /\ w_budget > 0
    /\ w_budget' = w_budget - 1
    /\ \E buf \in Buffers :
          LET sent == TrySend(outbound_ch, ~out_alive, buf)
              ret == WriteResult(sent.res, Len(buf))
          IN /\ outbound_ch' = sent.ch
             /\ enqueued' = enqueued \o SubSeq(sent.ch, Len(outbound_ch) + 1, Len(sent.ch))
             /\ written' = IF ret.result = "ok" THEN Append(written, SubSeq(buf, 1, ret.n))
                           ELSE written
             /\ last_write' = <<[buf |-> buf, result |-> ret.result, n |-> ret.n,
                                 closed |-> ~out_alive]>>
    /\ UNCHANGED <<d_budget, d_closed, d_sent, in_held, in_alive, inbound_ch, received,
                   read_buffer, read_pos, last_read, delivered, dropped, out_held,
                   out_alive, outer_ch, forwarded, outer_open>>
    /\ UNCHANGED <<diffCopyVars, sessVars, objVars, buildVars, platVars, taskVars, multiVars>>

\* serve returns once the connection has read EOF or failed to write: the
\* MessageStream is dropped, and inbound_rx and outbound_tx with it
StreamDrop ==
    /\ ~dropped
    /\ \/ /\ last_read # <<>>
          /\ last_read[1].result = "ready" /\ last_read[1].copied = 0
       \/ /\ last_write # <<>>
          /\ last_write[1].result = "broken_pipe"
    /\ dropped' = TRUE
    /\ inbound_ch' = <<>>
    /\ UNCHANGED <<d_budget, d_closed, d_sent, in_held, in_alive, received, read_buffer,
                   read_pos, last_read, delivered, w_budget, last_write, written,
                   outbound_ch, enqueued, out_held, out_alive, outer_ch, forwarded,
                   outer_open>>
    /\ UNCHANGED <<diffCopyVars, sessVars, objVars, buildVars, platVars, taskVars, multiVars>>

\* outbound pump: outbound_rx.recv().await yields the next message, or None
\* once the channel is empty and outbound_tx was dropped
OutboundRecv ==
    /\ out_alive /\ out_held = <<>>
    /\ IF outbound_ch # <<>>
       THEN /\ out_held' = <<Head(outbound_ch)>>
            /\ outbound_ch' = Tail(outbound_ch)
            /\ out_alive' = out_alive
       ELSE /\ dropped
            /\ out_alive' = FALSE
            /\ UNCHANGED <<out_held, outbound_ch>>
    /\ UNCHANGED <<d_budget, d_closed, d_sent, in_held, in_alive, inbound_ch, received,
                   read_buffer, read_pos, last_read, delivered, dropped, w_budget,
                   last_write, written, enqueued, outer_ch, forwarded, outer_open>>
    /\ UNCHANGED <<diffCopyVars, sessVars, objVars, buildVars, platVars, taskVars, multiVars>>

\* outbound pump: tx_clone.send(msg).await; an error ends the loop and
\* drops outbound_rx with what the channel holds
OutboundSend ==
    /\ out_held # <<>>
    /\ IF ~outer_open
       THEN /\ out_alive' = FALSE
            /\ outbound_ch' = <<>>
            /\ UNCHANGED <<outer_ch, forwarded>>
       ELSE /\ Len(outer_ch) < ChannelCap
            /\ outer_ch' = Append(outer_ch, out_held[1])
            /\ forwarded' = Append(forwarded, out_held[1])
            /\ UNCHANGED <<out_alive, outbound_ch>>
    /\ out_held' = <<>>
    /\ UNCHANGED <<d_budget, d_closed, d_sent, in_held, in_alive, inbound_ch, received,
                   read_buffer, read_pos, last_read, delivered, dropped, w_budget,
                   last_write, written, enqueued, outer_open>>
    /\ UNCHANGED <<diffCopyVars, sessVars, objVars, buildVars, platVars, taskVars, multiVars>>

\* the outbound stream of the Session call yields a message to the transport
OuterNext ==
    /\ outer_open
    /\ outer_ch # <<>>
    /\ outer_ch' = Tail(outer_ch)
    /\ UNCHANGED <<d_budget, d_closed, d_sent, in_held, in_alive, inbound_ch, received,
                   read_buffer, read_pos, last_read, delivered, dropped, w_budget,
                   last_write, written, outbound_ch, enqueued, out_held, out_alive,
                   forwarded, outer_open>>
    /\ UNCHANGED <<diffCopyVars, sessVars, objVars, buildVars, platVars, taskVars, multiVars>>

\* the transport drops the outbound stream of a call the daemon has ended
OuterDrop ==
    /\ outer_open
    /\ d_closed
    /\ outer_open' = FALSE
    /\ outer_ch' = <<>>
    /\ UNCHANGED <<d_budget, d_closed, d_sent, in_held, in_alive, inbound_ch, received,
                   read_buffer, read_pos, last_read, delivered, dropped, w_budget,
                   last_write, written, outbound_ch, enqueued, out_held, out_alive,
                   forwarded>>
    /\ UNCHANGED <<diffCopyVars, sessVars, objVars, buildVars, platVars, taskVars, multiVars>>

\* Session::start has returned Ok and serve has made its MessageStream
InitPipe ==
    /\ InitSession
    /\ NoBuild
    /\ input = <<>> /\ platform = <<>>
    /\ NoTasks
    /\ fs = {}
    /\ dir_name = <<>>
    /\ budget = 0
    /\ InitCall
    /\ d_budget = MaxSent /\ d_closed = FALSE /\ d_sent = <<>>
    /\ in_held = <<>> /\ in_alive = TRUE /\ inbound_ch = <<>> /\ received = <<>>
    /\ read_buffer = <<>> /\ read_pos = 0 /\ last_read = <<>> /\ delivered = <<>>
    /\ dropped = FALSE
    /\ w_budget = MaxWrites /\ last_write = <<>> /\ written = <<>>
    /\ outbound_ch = <<>> /\ enqueued = <<>> /\ out_held = <<>> /\ out_alive = TRUE
    /\ outer_ch = <<>> /\ forwarded = <<>> /\ outer_open = TRUE
    /\ NoStreams

NextPipe ==
    \/ PipeMessage \/ PipeClose
    \/ InboundSend \/ InboundEnd
    \/ PollRead \/ PollWrite \/ StreamDrop
    \/ OutboundRecv \/ OutboundSend
    \/ OuterNext \/ OuterDrop

SpecPipe == InitPipe /\ [][NextPipe]_vars

(***************************************************************************)
(* The accept loop of serve with several streams at a time: every accepted *)
(* stream gets a task of its own, and a DiffCopy task has its id counter   *)
(* and its file map as locals.  The context is one fixed tree.             *)
(***************************************************************************)
\* streams of one connection, REQ packets of the daemon on one stream
MaxStreams == 2
MaxReqs == 1

StreamIds == 1..MaxStreams

\* what the STAT phase walks: the Dockerfile alone under dir-name
\* "dockerfile", else the tree in depth-first order
Listing(dir) ==
    IF dir = "dockerfile"
    THEN <<[path |-> "Dockerfile", file |-> TRUE]>>
    ELSE <<[path |-> "Dockerfile", file |-> TRUE],
           [path |-> "a", file |-> FALSE],
           [path |-> "a/y", file |-> TRUE]>>

\* a stream nobody has opened
IdleStream ==
    [st |-> "idle", dir |-> "", pos |-> 0, id_counter |-> 0, file_map |-> {},
     out |-> <<>>, asks |-> 0, after |-> {}]

\* serve: what becomes of the accept loop when a handler task returns Err;
\* the error is logged
HandlerFailedBad(acc) == FALSE
HandlerFailed(acc) == acc

\* the id the STAT phase of a call assigns next: its local id_counter
IdCounterBad(strs, s) ==
    LET others == {t \in DOMAIN strs : t # s /\ strs[t].id_counter > strs[s].id_counter}
    IN IF others = {} THEN strs[s].id_counter
       ELSE strs[CHOOSE t \in others : TRUE].id_counter
IdCounter(strs, s) == strs[s].id_counter

\* the streams that have failed
FailedStreams == {t \in StreamIds : h2_streams[t].st = "failed"}

\* h2_conn.accept() yields a request and its task is spawned: a DiffCopy
\* call with its dir-name header, or a unary call
AcceptStream ==
    /\ accepting
    /\ \E s \in StreamIds :
          /\ h2_streams[s].st = "idle"
          /\ \/ \E dir \in {"dockerfile", "context"} :
                   h2_streams' = [h2_streams EXCEPT ![s] =
                       [@ EXCEPT !.st = "stat", !.dir = dir, !.asks = MaxReqs,
                                 !.after = FailedStreams]]
             \/ h2_streams' = [h2_streams EXCEPT ![s] =
                    [@ EXCEPT !.st = "unary", !.after = FailedStreams]]
    /\ UNCHANGED accepting
    /\ UNCHANGED <<diffCopyVars, sessVars, objVars, buildVars, platVars, taskVars, pipeVars>>

\* h2_conn.accept() yields None or an error: serve returns
AcceptEnd ==
    /\ accepting
    /\ accepting' = FALSE
    /\ UNCHANGED h2_streams
    /\ UNCHANGED <<diffCopyVars, sessVars, objVars, buildVars, platVars, taskVars, pipeVars>>

\* a unary handler answers, or returns Err
UnaryReturns ==
    /\ \E s \in StreamIds :
          /\ h2_streams[s].st = "unary"
          /\ \/ /\ accepting
                /\ h2_streams' = [h2_streams EXCEPT ![s] =
                       [@ EXCEPT !.st = "done",
                                 !.out = <<[kind |-> "OK", id |-> 0, path |-> ""]>>]]
                /\ UNCHANGED accepting
             \/ /\ h2_streams' = [h2_streams EXCEPT ![s] = [@ EXCEPT !.st = "failed"]]
                /\ accepting' = HandlerFailed(accepting)
    /\ UNCHANGED <<diffCopyVars, sessVars, objVars, buildVars, platVars, taskVars, pipeVars>>

\* a DiffCopy task sends the STAT packet of the next entry: the id is
\* id_counter, a file goes into file_map; after the last entry the final
\* STAT packet
StreamStat ==
    /\ accepting
    /\ \E s \in StreamIds :
          LET c == h2_streams[s]
              entries == Listing(c.dir)
          IN /\ c.st = "stat"
             /\ IF c.pos < Len(entries)
                THEN LET e == entries[c.pos + 1]
                         id == IdCounter(h2_streams, s)
                     IN h2_streams' = [h2_streams EXCEPT ![s] =
                            [@ EXCEPT !.pos = c.pos + 1,
                                      !.id_counter = id + 1,
                                      !.file_map = IF e.file
                                                   THEN @ \cup {[id |-> id, path |-> e.path]}
                                                   ELSE @,
                                      !.out = Append(@, [kind |-> "STAT", id |-> id,
                                                         path |-> e.path])]]
                ELSE h2_streams' = [h2_streams EXCEPT ![s] =
                         [@ EXCEPT !.st = "reqs",
                                   !.out = Append(@, [kind |-> "STAT", id |-> 0,
                                                      path |-> ""])]]
    /\ UNCHANGED accepting
    /\ UNCHANGED <<diffCopyVars, sessVars, objVars, buildVars, platVars, taskVars, pipeVars>>

\* a DiffCopy task decodes a REQ packet: the id is looked up in the
\* file_map of the call; a file is sent as a DATA packet and the empty DATA
\* packet after it, an id that is not in the map is ignored
StreamReq ==
    /\ accepting
    /\ \E s \in StreamIds, id \in 0..2 :
          LET c == h2_streams[s]
              found == {f \in c.file_map : f.id = id}
          IN /\ c.st = "reqs"
             /\ c.asks > 0
             /\ h2_streams' = [h2_streams EXCEPT ![s] =
                    [@ EXCEPT !.asks = c.asks - 1,
                              !.out = IF found = {} THEN @
                                      ELSE Append(@, [kind |-> "DATA", id |-> id,
                                                      path |-> (CHOOSE f \in found : TRUE).path])]]
    /\ UNCHANGED accepting
    /\ UNCHANGED <<diffCopyVars, sessVars, objVars, buildVars, platVars, taskVars, pipeVars>>

\* a DiffCopy task reads FIN or the end of its request stream: the FIN
\* packet and the trailers
StreamFin ==
    /\ accepting
    /\ \E s \in StreamIds :
          /\ h2_streams[s].st = "reqs"
          /\ h2_streams' = [h2_streams EXCEPT ![s] =
                 [@ EXCEPT !.st = "done",
                           !.out = Append(@, [kind |-> "FIN", id |-> 0, path |-> ""])]]
    /\ UNCHANGED accepting
    /\ UNCHANGED <<diffCopyVars, sessVars, objVars, buildVars, platVars, taskVars, pipeVars>>

\* a DiffCopy task fails in its STAT phase (a local I/O error), or finds
\* its stream gone with the connection: it returns Err
StreamFails ==
    /\ \E s \in StreamIds :
          /\ h2_streams[s].st \in {"stat", "reqs"}
          /\ h2_streams[s].st = "reqs" => ~accepting
          /\ h2_streams' = [h2_streams EXCEPT ![s] = [@ EXCEPT !.st = "failed"]]
    /\ accepting' = HandlerFailed(accepting)
    /\ UNCHANGED <<diffCopyVars, sessVars, objVars, buildVars, platVars, taskVars, pipeVars>>

\* the handshake of serve is done, no stream is open
InitStreams ==
    /\ InitSession
    /\ NoBuild
    /\ input = <<>> /\ platform = <<>>
    /\ NoTasks /\ NoPipe
    /\ fs = {}
    /\ dir_name = <<>>
    /\ budget = 0
    /\ InitCall
    /\ accepting = TRUE
    /\ h2_streams = [s \in StreamIds |-> IdleStream]

NextStreams ==
    \/ AcceptStream \/ AcceptEnd
    \/ UnaryReturns
    \/ StreamStat \/ StreamReq \/ StreamFin \/ StreamFails

SpecStreams == InitStreams /\ [][NextStreams]_vars

(***************************************************************************)
(* GrpcTunnel::handle_request: one request of the daemon is accepted and   *)
(* dispatched by its path.  What is written to the HTTP/2 stream of the    *)
(* request is a sequence of events: response headers, a framed message,    *)
(* trailers.  A handler that returns an error before it has responded      *)
(* leaves the sequence empty (the stream is dropped).                      *)
(***************************************************************************)
\* match method.as_str()
RouteBad(method) ==
    IF method = PathHealth THEN "health"
    ELSE IF method \in {PathDiffCopy, PathTarStream} THEN "diffcopy"
    ELSE IF method \in {PathGetTokenAuthority, PathVerifyTokenAuthority}
         THEN "get_token_authority"
    ELSE IF method = PathCredentials THEN "credentials"
    ELSE IF method = PathFetchToken THEN "fetch_token"
    ELSE IF method = PathGetSecret THEN "get_secret"
    ELSE "unknown"
Route(method) ==
    IF method = PathHealth THEN "health"
    ELSE IF method = PathDiffCopy THEN "diffcopy"
    ELSE IF method = PathGetTokenAuthority THEN "get_token_authority"
    ELSE IF method = PathCredentials THEN "credentials"
    ELSE IF method = PathFetchToken THEN "fetch_token"
    ELSE IF method = PathGetSecret THEN "get_secret"
    ELSE "unknown"

\* a message with one string field, number 1 (CredentialsRequest.host,
\* GetSecretRequest.id), as prost encodes it
EncodeString1(str) == IF str = <<>> THEN <<>> ELSE <<10, Len(str)>> \o str

\* and as prost decodes it: [ok, value]
RECURSIVE DecodeString1From(_, _)
DecodeString1From(bytes, value) ==
    IF bytes = <<>> THEN [ok |-> TRUE, value |-> value]
    ELSE IF Len(bytes) >= 2 /\ bytes[1] = 10 /\ Len(bytes) >= 2 + bytes[2]
         THEN DecodeString1From(SubSeq(bytes, 3 + bytes[2], Len(bytes)),
                                SubSeq(bytes, 3, 2 + bytes[2]))
    ELSE [ok |-> FALSE, value |-> <<>>]
DecodeString1(bytes) == DecodeString1From(bytes, <<>>)

\* a message that is cut short
Malformed == <<10, 5, 97>>

\* read_unary_request: the whole body, less its first 5 bytes
ReadUnaryRequest(body) ==
    IF Len(body) > 5 THEN SubSeq(body, 6, Len(body)) ELSE <<>>

\* the requests of the daemon
Requests ==
    {[method |-> PathCredentials, body |-> GrpcFrame(0, EncodeString1(host))] :
         host \in RequestedHosts}
    \cup {[method |-> PathGetSecret, body |-> GrpcFrame(0, EncodeString1(id))] :
              id \in SecretIds}
    \cup {[method |-> m, body |-> GrpcFrame(0, Malformed)] :
              m \in {PathCredentials, PathGetSecret, PathGetTokenAuthority}}
    \cup {[method |-> m, body |-> <<>>] :
              m \in {PathHealth, PathDiffCopy, PathGetTokenAuthority, PathCredentials,
                     PathFetchToken, PathGetSecret, PathTarStream,
                     PathVerifyTokenAuthority, PathOther}}
    \cup {[method |-> PathGetTokenAuthority,
           body |-> GrpcFrame(0, EncodeString1(HostDockerIo))]}

\* h2_conn.accept() yields a request; a task runs handle_request for it
Accept ==
    /\ tpc = "serving"
    /\ \E r \in Requests : request' = <<r>>
    /\ response' = <<>>
    /\ returned' = "none"
    /\ tpc' = "dispatch"
    /\ UNCHANGED <<config, auth, secrets, added>>
    /\ UNCHANGED outsideSession

\* events on the stream of the request
Headers(grpc_status, grpc_message, end_stream) ==
    [kind |-> "headers", grpc_status |-> grpc_status, grpc_message |-> grpc_message,
     message |-> <<>>, end_stream |-> end_stream]
Data(message) ==
    [kind |-> "data", grpc_status |-> <<>>, grpc_message |-> <<>>,
     message |-> <<message>>, end_stream |-> FALSE]
Trailers(grpc_status) ==
    [kind |-> "trailers", grpc_status |-> <<grpc_status>>, grpc_message |-> <<>>,
     message |-> <<>>, end_stream |-> TRUE]

\* send_success_response
SendSuccessResponse(message) ==
    <<Headers(<<>>, <<>>, FALSE), Data(message), Trailers(0)>>

\* send_error_response
SendErrorResponse(message) == <<Headers(<<12>>, <<message>>, TRUE)>>

\* the end of handle_request
Return(events, res) ==
    /\ response' = events
    /\ returned' = res
    /\ tpc' = "serving"
    /\ UNCHANGED <<config, auth, secrets, added, request>>
    /\ UNCHANGED outsideSession

\* the request being handled, and the message of its body
Method == request[1].method
Payload == ReadUnaryRequest(request[1].body)

\* handle_health_check: status = SERVING, encoded by hand
HealthCheckResponse == <<8, 1>>

HealthCheck ==
    /\ tpc = "dispatch"
    /\ Route(Method) = "health"
    /\ Return(SendSuccessResponse(HealthCheckResponse), "ok")

\* the DiffCopy arm: the stream goes to handle_file_sync_diff_copy_stream,
\* which refuses without a FileSync service and whose run is otherwise the
\* specification Spec
DiffCopyCall ==
    /\ tpc = "dispatch"
    /\ Route(Method) = "diffcopy"
    /\ IF file_sync = <<>>
       THEN Return(SendErrorResponse("FileSync not available"), "ok")
       ELSE Return(<<>>, "diffcopy")

\* the GetTokenAuthority arm: the body is not read
GetTokenAuthorityReplyBad ==
    SendSuccessResponse([type |-> "GetTokenAuthorityResponse", public_key |-> <<>>])
GetTokenAuthorityReply == SendErrorResponse("Token auth not implemented")

GetTokenAuthority ==
    /\ tpc = "dispatch"
    /\ Route(Method) = "get_token_authority"
    /\ Return(GetTokenAuthorityReply, "ok")

\* handle_auth_credentials on a request that decodes
AuthCredentialsBad(host) ==
    IF auth # <<>> /\ FindCredentials(auth[1], host) # <<>>
    THEN Credentials(auth[1], host)
    ELSE CredentialsResponse(<<"anonymous">>, EmptyString)
AuthCredentials(host) ==
    IF auth # <<>>
    THEN Credentials(auth[1], host)
    ELSE CredentialsResponse(EmptyString, EmptyString)

\* the Credentials arm
CredentialsCall ==
    /\ tpc = "dispatch"
    /\ Route(Method) = "credentials"
    /\ LET req == DecodeString1(Payload)
       IN IF req.ok
          THEN Return(SendSuccessResponse(AuthCredentials(req.value)), "ok")
          ELSE Return(<<>>, "err_decode")

\* handle_auth_fetch_token: an empty token
FetchTokenResponse ==
    [type |-> "FetchTokenResponse", token |-> EmptyString, expires_in |-> 0, issued_at |-> 0]

FetchToken ==
    /\ tpc = "dispatch"
    /\ Route(Method) = "fetch_token"
    /\ Return(SendSuccessResponse(FetchTokenResponse), "ok")

\* SecretsServer::get_secret: the response, or the status
GetSecretResponse(data) == [type |-> "GetSecretResponse", data |-> data]
NotFound(id) == [code |-> 5, message |-> <<"secret ", id, " not found">>]
GetSecretOf(map, id) ==
    IF id \in DOMAIN map
    THEN [ok |-> TRUE, value |-> GetSecretResponse(map[id])]
    ELSE [ok |-> FALSE, value |-> NotFound(id)]

\* handle_secrets_get_secret on a request that decodes: [ok, value], value
\* the response or the Error
SecretsGetSecret(id) ==
    IF secrets # <<>>
    THEN LET got == GetSecretOf(secrets[1], id)
         IN IF got.ok
            THEN got
            ELSE [ok |-> FALSE, value |-> "err_secret_not_found"]
    ELSE [ok |-> FALSE, value |-> "err_secrets_not_configured"]

\* the GetSecret arm: an Err of the handler leaves handle_request by `?`
GetSecret ==
    /\ tpc = "dispatch"
    /\ Route(Method) = "get_secret"
    /\ LET req == DecodeString1(Payload)
       IN IF req.ok
          THEN LET got == SecretsGetSecret(req.value)
               IN IF got.ok
                  THEN Return(SendSuccessResponse(got.value), "ok")
                  ELSE Return(<<>>, got.value)
          ELSE Return(<<>>, "err_decode")

\* the arm of every other path
UnknownMethod ==
    /\ tpc = "dispatch"
    /\ Route(Method) = "unknown"
    /\ Return(SendErrorResponse("Unimplemented"), "ok")

\* a session: its services are set up, or build() sets them up from a
\* BuildConfig, and the tunnel serves the requests of the daemon.  Each
\* request has a task of its own; the unary handlers share nothing but the
\* services, which they only read, so the tasks are taken one after another
InitSess ==
    /\ InitSession
    /\ session \in {<<x>> : x \in Sessions}
    /\ file_sync = <<>>
    /\ NoBuildCall /\ NoParse
    /\ fs = {}
    /\ dir_name = <<>>
    /\ budget = 0
    /\ InitCall

NextSession ==
    \/ AddFileSync
    \/ NewAuthServer \/ AddRegistry
    \/ NewSecretsServer \/ AddSecret \/ AddSecretString \/ FromMap
    \/ StartSession \/ Build
    \/ Accept
    \/ HealthCheck \/ DiffCopyCall \/ GetTokenAuthority \/ CredentialsCall
    \/ FetchToken \/ GetSecret \/ UnknownMethod

SpecSession == InitSess /\ [][NextSession]_vars

(***************************************************************************)
(* Reading the packets of a call.                                          *)
(***************************************************************************)
IsEntryStat(p) == p.type = "STAT" /\ p.stat # <<>>
IsFinalStat(p) == p.type = "STAT" /\ p.stat = <<>>

\* the STAT packets that carry an entry, in emission order
EntryStats == SelectSeq(out, IsEntryStat)

\* a relative path as its names: the inverse of joining names with '/'
RECURSIVE SplitPath(_)
SplitPath(s) ==
    IF \A i \in 1..Len(s) : s[i] # Slash THEN <<s>>
    ELSE LET k == CHOOSE i \in 1..Len(s) :
                      s[i] = Slash /\ \A j \in 1..(i - 1) : s[j] # Slash
         IN <<SubSeq(s, 1, k - 1)>> \o SplitPath(SubSeq(s, k + 1, Len(s)))

StatPathNames == [i \in 1..Len(EntryStats) |-> SplitPath(EntryStats[i].stat[1].path)]

\* p comes before q in the depth-first enumeration with sorted siblings: p
\* is an ancestor of q, or where the two paths part p takes the smaller name
DfsBefore(p, q) ==
    \E k \in 1..(Len(p) + 1) :
        /\ k - 1 <= Len(q)
        /\ \A i \in 1..(k - 1) : p[i] = q[i]
        /\ IF k = Len(p) + 1
           THEN Len(q) >= k
           ELSE k <= Len(q) /\ StrLess(p[k], q[k])

\* the STAT phase has ended with the final STAT packet
StatPhaseDone ==
    pc \in {"recv", "parse", "open", "read", "fin", "trailers"}
    \/ (pc = "done" /\ result = "ok")

(***************************************************************************)
(* C1.  In a full-context call (dir-name absent or not "dockerfile") the   *)
(* paths of the entry-carrying STAT packets are, at every moment, an       *)
(* initial part of the depth-first enumeration of the tree under the root  *)
(* in which a directory precedes its contents and the children of a        *)
(* directory come in byte-wise ascending name order; once the final STAT   *)
(* is sent they are the whole enumeration.                                 *)
(***************************************************************************)
C1_DfsOrder ==
    dir_name # <<"dockerfile">> =>
        LET names == StatPathNames
            n == Len(names)
        IN /\ \A i \in 1..n : names[i] \in PathsOf(fs)
           /\ \A i, j \in 1..n : i < j => DfsBefore(names[i], names[j])
           /\ \A i \in 1..n : \A e \in fs :
                  DfsBefore(e.path, names[i]) => \E j \in 1..(i - 1) : names[j] = e.path
           /\ StatPhaseDone => {names[i] : i \in 1..n} = PathsOf(fs)

\* a directory "a" with a child is sent, the child before the sibling "a.y"
\* that a sort of the whole paths would put first
C1_Witness ==
    /\ dir_name # <<"dockerfile">>
    /\ StatPhaseDone
    /\ Len(EntryStats) = 3
    /\ EntryStats[1].stat[1].path = NameA
    /\ EntryStats[2].stat[1].path = NameA \o <<Slash>> \o NameDockerfile
    /\ EntryStats[3].stat[1].path = NameAY

(***************************************************************************)
(* C2.  The ids of the entry-carrying STAT packets of a call are 0, 1, 2,  *)
(* ... in emission order: the i-th such packet carries id i-1.             *)
(***************************************************************************)
C2_DenseIds ==
    \A i \in 1..Len(EntryStats) : EntryStats[i].id = i - 1

C2_Witness ==
    /\ StatPhaseDone
    /\ Len(EntryStats) = 3
    /\ EntryStats[3].id = 2
    /\ Len(SplitPath(EntryStats[3].stat[1].path)) = 2

(***************************************************************************)
(* C3.  A call sends at most one STAT packet without a stat; a call whose  *)
(* STAT phase succeeded has sent exactly one.  It comes after every        *)
(* entry-carrying STAT packet and before every DATA and FIN packet, and    *)
(* for an empty root in full-context mode it is the only STAT packet.      *)
(***************************************************************************)
C3_OneTerminator ==
    LET finals == {i \in 1..Len(out) : IsFinalStat(out[i])}
    IN /\ Cardinality(finals) <= 1
       /\ StatPhaseDone => Cardinality(finals) = 1
       /\ \A i \in finals : \A j \in 1..Len(out) :
              /\ IsEntryStat(out[j]) => j < i
              /\ out[j].type \in {"DATA", "FIN"} => j > i
       /\ (fs = {} /\ dir_name # <<"dockerfile">> /\ StatPhaseDone) =>
              \A j \in 1..Len(out) : out[j].type = "STAT" => IsFinalStat(out[j])

\* a finished call with entries, file content and FIN around its terminator
C3_Witness ==
    /\ pc = "done" /\ result = "ok"
    /\ \E i, j, k \in 1..Len(out) :
           /\ i < j /\ j < k
           /\ IsEntryStat(out[i])
           /\ IsFinalStat(out[j])
           /\ out[k].type = "DATA" /\ out[k].data # <<>>
    /\ out[Len(out)].type = "FIN"

(***************************************************************************)
(* C4.  In both modes a STAT packet sent for a directory has size 0 and    *)
(* the type bits S_IFDIR, and a STAT packet sent for a regular file has    *)
(* the type bits S_IFREG and the length of the file as its size.           *)
(***************************************************************************)
C4_StatKinds ==
    \A i \in 1..Len(EntryStats) :
        LET st == EntryStats[i].stat[1]
            e == Lstat(SplitPath(st.path))
        IN /\ IsDir(e) => (st.size = 0 /\ TypeBits(st.mode) = S_IFDIR)
           /\ IsFile(e) => (st.size = e.size /\ TypeBits(st.mode) = S_IFREG)

(***************************************************************************)
(* C5.  Every path of a STAT packet and every path of the id-to-path map   *)
(* names, once symbolic links are resolved, an object under the root, and  *)
(* no STAT packet describes and no DATA packet carries bytes of an object  *)
(* outside the root.                                                       *)
(***************************************************************************)
C5_InsideRoot ==
    /\ \A i \in 1..Len(EntryStats) :
           Follow(SplitPath(EntryStats[i].stat[1].path)).inside
    /\ \A id \in DOMAIN file_map : Follow(file_map[id]).inside
    /\ \A i \in 1..Len(out) :
           (out[i].type = "DATA" /\ out[i].data # <<>>) => out[i].data[1].obj.inside

(***************************************************************************)
(* Reading the REQs a call has decoded: reqs[k] is the k-th, and the       *)
(* packets sent for it are out[from+1 .. to].                              *)
(***************************************************************************)
RunOf(r) == SubSeq(out, r.from + 1, IF r.state = "sending" THEN Len(out) ELSE r.to)

\* the bytes a packet sequence carries end at this offset of the file
EndOffset(run, i) ==
    IF i = 0 THEN 0 ELSE run[i].data[1].off + run[i].data[1].len

(***************************************************************************)
(* C6.  A REQ whose id is in the id-to-path map and whose file is read     *)
(* without an I/O error is answered by a run of DATA packets with that id: *)
(* packets of 1 to 32768 bytes that carry the bytes of the file from the   *)
(* first to the last in order, then exactly one DATA packet with empty     *)
(* data (for an empty file the run is that packet alone).  The step that   *)
(* sends the closing packet leaves the handler reading the next message.   *)
(***************************************************************************)
C6_RunState ==
    \A k \in 1..Len(reqs) :
        reqs[k].state = "sent" =>
            LET r == reqs[k]
                file == Follow(file_map[r.id])
                run == RunOf(r)
                n == Len(run)
            IN /\ r.id \in DOMAIN file_map
               /\ n >= 1
               /\ \A i \in 1..n : run[i].type = "DATA" /\ run[i].id = r.id
               /\ run[n].data = <<>>
               /\ \A i \in 1..(n - 1) :
                      /\ run[i].data # <<>>
                      /\ run[i].data[1].obj = file
                      /\ run[i].data[1].len \in 1..32768
                      /\ run[i].data[1].off = EndOffset(run, i - 1)
               /\ EndOffset(run, n - 1) = file.size

C6_RunStep ==
    (/\ Len(out') = Len(out) + 1
     /\ out'[Len(out')].type = "DATA"
     /\ out'[Len(out')].data = <<>>)
        => (pc' = "parse" /\ cur' = <<>> /\ result' = "running")

C6_DataRun == []C6_RunState /\ [][C6_RunStep]_vars

\* a file of 32769 bytes went out in more than one packet, then an empty
\* file, each closed by its empty DATA packet
C6_Witness ==
    /\ Len(reqs) = 2
    /\ reqs[1].state = "sent" /\ reqs[2].state = "sent"
    /\ reqs[1].id # reqs[2].id
    /\ Len(RunOf(reqs[1])) >= 3
    /\ Len(RunOf(reqs[2])) = 1

(***************************************************************************)
(* C7.  The packets sent for one requested file are contiguous: from the   *)
(* first DATA packet of a run to the end of the run every packet is a DATA *)
(* packet with the requested id, never a STAT, a FIN or a packet with      *)
(* another id; the runs of successive REQs do not overlap, and every DATA  *)
(* packet belongs to a run.                                                *)
(***************************************************************************)
C7_NoInterleaving ==
    /\ \A k \in 1..Len(reqs) :
           \A i \in 1..Len(RunOf(reqs[k])) :
               /\ reqs[k].known
               /\ RunOf(reqs[k])[i].type = "DATA"
               /\ RunOf(reqs[k])[i].id = reqs[k].id
    /\ \A k \in 1..Len(reqs) : \A m \in 1..Len(reqs) :
           k < m => (reqs[k].state # "sending" /\ reqs[k].to <= reqs[m].from)
    /\ \A j \in 1..Len(out) :
           out[j].type = "DATA" =>
               \E k \in 1..Len(reqs) :
                   reqs[k].from < j /\ j <= reqs[k].from + Len(RunOf(reqs[k]))

\* the run of one file is complete while the REQ for another file, received
\* in the same chunk, is still in the buffer
C7_Witness ==
    /\ Len(reqs) = 1
    /\ reqs[1].state = "sent"
    /\ Len(RunOf(reqs[1])) >= 2
    /\ pc = "parse"
    /\ Decodable
    /\ Received.ok
    /\ ReceivedType = "REQ"
    /\ Received.id # reqs[1].id
    /\ Received.id \in DOMAIN file_map

(***************************************************************************)
(* C8.  The id-to-path map holds exactly the ids of the entries whose STAT *)
(* packet says regular file.  A REQ for any other id (the id of a          *)
(* directory, an id never assigned) gets no DATA packet and no error, and  *)
(* the call goes on.                                                       *)
(***************************************************************************)
C8_FileMapIsFiles ==
    /\ DOMAIN file_map =
           {EntryStats[i].id : i \in {j \in 1..Len(EntryStats) :
                                          TypeBits(EntryStats[j].stat[1].mode) = S_IFREG}}
    /\ \A k \in 1..Len(reqs) :
           ~reqs[k].known =>
               /\ reqs[k].id \notin DOMAIN file_map
               /\ reqs[k].state = "ignored"
               /\ RunOf(reqs[k]) = <<>>
               /\ result # "err"

(***************************************************************************)
(* C9.  A call sends at most one FIN packet; it has id 0, no stat and      *)
(* empty data, nothing is sent after it, and it is sent only after the     *)
(* daemon's FIN was decoded or the inbound stream ended.  Once the daemon's *)
(* FIN is decoded no further REQ is served.  A call that ends well has     *)
(* sent the FIN packet last and then trailers with grpc-status 0.          *)
(***************************************************************************)
C9_FinLast ==
    LET fins == {i \in 1..Len(out) : out[i].type = "FIN"}
    IN /\ Cardinality(fins) <= 1
       /\ \A i \in fins :
              /\ i = Len(out)
              /\ out[i].id = 0 /\ out[i].stat = <<>> /\ out[i].data = <<>>
              /\ received_fin \/ (closed /\ wire = <<>>)
       /\ received_fin => pc \in {"fin", "trailers", "done"}
       /\ pc = "trailers" => fins # {}
       /\ trailers # <<>> /\ trailers[1].status = 0 => fins # {}
       /\ (pc = "done" /\ result = "ok") =>
              (fins # {} /\ trailers = <<[status |-> 0, message |-> ""]>>)

\* a call that served a file, decoded the daemon's FIN and ended
C9_Witness ==
    /\ pc = "done" /\ result = "ok"
    /\ received_fin
    /\ Len(out) >= 4
    /\ out[Len(out)].type = "FIN"
    /\ out[Len(out) - 1].type = "DATA"
    /\ trailers[1].status = 0

(***************************************************************************)
(* C10.  With dir-name "dockerfile" and a regular file Dockerfile at the   *)
(* root, whatever else the root holds, the call sends exactly one          *)
(* entry-carrying STAT packet, with id 0, path "Dockerfile" and the file's *)
(* size, and next the final STAT packet; a REQ for id 0 is served with the *)
(* bytes of that file and a REQ for any other id is not served.            *)
(***************************************************************************)
C10_DockerfileOnly ==
    (/\ dir_name = <<"dockerfile">>
     /\ Exists(<<NameDockerfile>>)
     /\ IsFile(Lstat(<<NameDockerfile>>))) =>
        LET f == Lstat(<<NameDockerfile>>)
        IN /\ \A i \in 1..Len(out) :
                  IsEntryStat(out[i]) =>
                      /\ i = 1
                      /\ out[i].id = 0
                      /\ out[i].stat[1].path = NameDockerfile
                      /\ out[i].stat[1].size = f.size
                      /\ out[i].stat[1].mode = f.mode
           /\ StatPhaseDone =>
                  (Len(out) >= 2 /\ IsEntryStat(out[1]) /\ IsFinalStat(out[2]))
           /\ \A k \in 1..Len(reqs) :
                  /\ reqs[k].known <=> reqs[k].id = 0
                  /\ reqs[k].state = "sent" =>
                         LET run == RunOf(reqs[k])
                         IN /\ \A i \in 1..(Len(run) - 1) :
                                   /\ run[i].data[1].obj.inside
                                   /\ run[i].data[1].obj.path = <<NameDockerfile>>
                            /\ EndOffset(run, Len(run) - 1) = f.size

\* the root holds Dockerfile and another entry, and REQ 0 was served with
\* the 32769 bytes of Dockerfile
C10_Witness ==
    /\ dir_name = <<"dockerfile">>
    /\ Cardinality(fs) = 2
    /\ Len(EntryStats) = 1
    /\ Len(reqs) >= 1
    /\ reqs[1].id = 0 /\ reqs[1].state = "sent"
    /\ Len(RunOf(reqs[1])) >= 3
    /\ RunOf(reqs[1])[1].data[1].obj.path = <<NameDockerfile>>
    /\ RunOf(reqs[1])[1].data[1].obj.inside

(***************************************************************************)
(* C11.  With dir-name "dockerfile" and no entry Dockerfile under the      *)
(* root, the call sends no packet at all (no STAT, not even the final one, *)
(* no DATA, no FIN), serves no REQ, and ends with trailers carrying        *)
(* grpc-status 2.                                                          *)
(***************************************************************************)
C11_MissingDockerfile ==
    (dir_name = <<"dockerfile">> /\ ~Exists(<<NameDockerfile>>)) =>
        /\ out = <<>>
        /\ reqs = <<>>
        /\ pc \in {"start", "dockerfile", "done"}
        /\ pc = "done" =>
               (result = "err" /\ Len(trailers) = 1 /\ trailers[1].status = 2)

\* the root holds entries, none of them Dockerfile, and the call has ended
C11_Witness ==
    /\ dir_name = <<"dockerfile">>
    /\ fs # {}
    /\ ~Exists(<<NameDockerfile>>)
    /\ pc = "done"
    /\ trailers = <<[status |-> 2, message |-> "Dockerfile not found"]>>

(***************************************************************************)
(* C12.  Once a requested file could not be opened or read, the call       *)
(* serves no further REQ and ends with trailers carrying grpc-status 2,    *)
(* never with grpc-status 0.                                               *)
(***************************************************************************)
C12_StreamErrorAborts ==
    \A k \in 1..Len(reqs) :
        reqs[k].state = "failed" =>
            /\ k = Len(reqs)
            /\ result # "ok"
            /\ pc \in {"parse", "done"}
            /\ pc = "done" => (Len(trailers) = 1 /\ trailers[1].status = 2)

\* faults of the STAT phase of a full-context call: those not spent on a REQ
StatFaults == (MaxFaults - faults) - Cardinality({k \in 1..Len(reqs) : reqs[k].state = "failed"})

(***************************************************************************)
(* C13.  In a full-context call, once reading a directory or the metadata  *)
(* of an entry has failed, the call has ended with trailers carrying       *)
(* grpc-status 2 and the error text, and it has sent no final STAT, no     *)
(* DATA and no FIN packet and has processed no REQ.                        *)
(***************************************************************************)
C13_StatErrorAborts ==
    (dir_name # <<"dockerfile">> /\ StatFaults > 0) =>
        /\ pc = "done"
        /\ result = "err"
        /\ trailers = <<[status |-> 2, message |-> "io error"]>>
        /\ \A i \in 1..Len(out) : IsEntryStat(out[i])
        /\ reqs = <<>>
        /\ buffer = <<>>

\* the error came after a STAT packet had been sent
C13_Witness ==
    /\ dir_name # <<"dockerfile">>
    /\ StatFaults > 0
    /\ pc = "done"
    /\ Len(out) >= 1
    /\ trailers # <<>>

(***************************************************************************)
(* Reading the answer to a request of the tunnel.                          *)
(***************************************************************************)
\* handle_request has returned for the request
Handled == tpc = "serving" /\ request # <<>> /\ returned # "none"

\* the string the body of the request carries
Asked == DecodeString1(Payload)

\* the events of a kind, the gRPC status values written to the stream
EventsOf(kind) == SelectSeq(response, LAMBDA e : e.kind = kind)
StatusWritten == {e.grpc_status[1] : e \in {response[i] : i \in {j \in 1..Len(response) :
                                                   response[j].grpc_status # <<>>}}}
LastEvent == response[Len(response)]

\* the response is an OK answer carrying the message
AnsweredWith(message) ==
    /\ Len(response) = 3
    /\ response[1].kind = "headers" /\ response[1].grpc_status = <<>>
    /\ response[2].kind = "data" /\ response[2].message = <<message>>
    /\ response[3].kind = "trailers" /\ response[3].grpc_status = <<0>>

\* the response is an error answer: the status and the message in the
\* headers that end the stream, and nothing else
FailedWith(status, message) ==
    /\ Len(response) = 1
    /\ response[1].kind = "headers"
    /\ response[1].grpc_status = <<status>>
    /\ response[1].grpc_message = <<message>>
    /\ response[1].end_stream

(***************************************************************************)
(* C14.  With a Secrets service configured, a GetSecret request for an id  *)
(* that is in its map is answered with the stored bytes and grpc-status 0, *)
(* and one for an id that is not is answered with grpc-status 5 and the    *)
(* message "secret <id> not found".                                        *)
(***************************************************************************)
C14_GetSecretAnswers ==
    (Handled /\ Method = PathGetSecret /\ Asked.ok /\ secrets # <<>>) =>
        IF Asked.value \in DOMAIN secrets[1]
        THEN AnsweredWith(GetSecretResponse(secrets[1][Asked.value]))
        ELSE /\ response # <<>>
             /\ StatusWritten = {5}
             /\ \E i \in 1..Len(response) :
                    response[i].grpc_message = <<<<"secret ", Asked.value, " not found">>>>

(***************************************************************************)
(* C15.  A Credentials request for a host is answered with an OK response  *)
(* ending in grpc-status 0: it carries the username and secret of a        *)
(* registered entry that matches the host if there is one, and two empty   *)
(* strings if none matches or no Auth service is configured.               *)
(***************************************************************************)
C15_CredentialsNeverFail ==
    (Handled /\ Method = PathCredentials /\ Asked.ok) =>
        LET regs == IF auth = <<>> THEN <<>> ELSE auth[1]
            matching == {i \in 1..Len(regs) : Matches(regs[i], Asked.value)}
        IN /\ returned = "ok"
           /\ LastEvent.kind = "trailers" /\ LastEvent.grpc_status = <<0>>
           /\ IF matching # {}
              THEN \E i \in matching :
                       AnsweredWith(CredentialsResponse(regs[i].username, regs[i].password))
              ELSE AnsweredWith(CredentialsResponse(<<>>, <<>>))

\* a hit has been answered
C15_Witness ==
    /\ Handled /\ Method = PathCredentials /\ Asked.ok
    /\ auth # <<>>
    /\ \E i \in 1..Len(auth[1]) :
           /\ Matches(auth[1][i], Asked.value)
           /\ AnsweredWith(CredentialsResponse(auth[1][i].username, auth[1][i].password))

(***************************************************************************)
(* C16.  The entry whose credentials answer a Credentials request is       *)
(* chosen by rule before position: an entry whose host equals the          *)
(* requested host; if there is none, an entry whose host is a substring of *)
(* the requested host; if there is none, an entry registered as docker.io  *)
(* for registry-1.docker.io and index.docker.io.                           *)
(***************************************************************************)
C16_PriorityOrder ==
    (Handled /\ Method = PathCredentials /\ Asked.ok /\ auth # <<>>) =>
        LET regs == auth[1]
            host == Asked.value
            exact == {i \in 1..Len(regs) : regs[i].host = host}
            substring == {i \in 1..Len(regs) : Contains(host, regs[i].host)}
            alias == {i \in 1..Len(regs) :
                          regs[i].host = HostDockerIo /\ host \in {HostRegistry1, HostIndex}}
            chosen == IF exact # {} THEN exact
                      ELSE IF substring # {} THEN substring
                      ELSE alias
        IN chosen # {} =>
               \E i \in chosen :
                   AnsweredWith(CredentialsResponse(regs[i].username, regs[i].password))

(***************************************************************************)
(* C17.  A request whose path is none of the six routed ones is answered   *)
(* with headers that carry grpc-status 12 and end the stream, without a    *)
(* message; handling it hands the request to no service and leaves the     *)
(* services as they are.                                                   *)
(***************************************************************************)
RoutedPaths == {PathHealth, PathDiffCopy, PathGetTokenAuthority, PathCredentials,
                PathFetchToken, PathGetSecret}
C17_Refused ==
    (Handled /\ Method \notin RoutedPaths) =>
        (FailedWith(12, "Unimplemented") /\ returned = "ok")
C17_NoHandler ==
    (tpc = "dispatch" /\ Method \notin RoutedPaths) =>
        (auth' = auth /\ secrets' = secrets /\ UNCHANGED outsideSession)
C17_UnknownPath == []C17_Refused /\ [][C17_NoHandler]_vars

\* a path the session advertises has been refused, services registered
C17_Witness ==
    /\ Handled
    /\ Method = PathTarStream
    /\ auth # <<>> /\ secrets # <<>>
    /\ FailedWith(12, "Unimplemented")

(***************************************************************************)
(* C18.  A GetTokenAuthority request is answered with grpc-status 12 and   *)
(* the message "Token auth not implemented", with or without an Auth       *)
(* service and whatever its body; it gets no OK response.                  *)
(***************************************************************************)
C18_TokenAuthorityRefused ==
    (Handled /\ Method = PathGetTokenAuthority) =>
        /\ FailedWith(12, "Token auth not implemented")
        /\ 0 \notin StatusWritten
        /\ EventsOf("data") = <<>>

\* refused with an Auth service registered and a body that names a host
C18_Witness ==
    /\ Handled /\ Method = PathGetTokenAuthority
    /\ auth # <<>> /\ auth[1] # <<>>
    /\ Asked.ok /\ Asked.value = HostDockerIo
    /\ FailedWith(12, "Token auth not implemented")

(***************************************************************************)
(* C19.  add_secret (and add_secret_string) succeeds exactly for a secret  *)
(* of at most 512000 bytes and then stores it; from_map succeeds exactly   *)
(* if every value is that short; no stored secret is longer than 512000    *)
(* bytes.                                                                  *)
(***************************************************************************)
C19_SecretSizeLimit ==
    /\ \A i \in 1..Len(added) :
           LET call == added[i]
           IN IF call.op = "from_map"
              THEN /\ call.result = "ok" <=>
                          \A id \in DOMAIN call.data : call.data[id].size <= 512000
                   /\ call.result = "ok" => secrets = <<call.data>>
                   /\ call.result = "err" => secrets = <<>>
              ELSE /\ call.result = "ok" <=> call.data.size <= 512000
                   /\ call.result = "ok" =>
                          (call.id \in DOMAIN secrets[1] /\ secrets[1][call.id] = call.data)
    /\ secrets # <<>> => \A id \in DOMAIN secrets[1] : secrets[1][id].size <= 512000

\* a secret of exactly 512000 bytes has been stored by add_secret
C19_Witness ==
    /\ added # <<>>
    /\ added[1].op = "add_secret"
    /\ added[1].data.size = 512000
    /\ added[1].result = "ok"
    /\ secrets[1][added[1].id].size = 512000

(***************************************************************************)
(* C20.  The session of a build whose BuildConfig holds secrets (each of a *)
(* length add_secret accepts) has a Secrets service that holds every       *)
(* configured id with its value, and a GetSecret request for a configured  *)
(* id is answered with that value.                                         *)
(***************************************************************************)
C20_BuildSecrets ==
    (/\ config # <<>>
     /\ DOMAIN config[1].secrets # {}
     /\ \A id \in DOMAIN config[1].secrets : config[1].secrets[id].size <= 512000) =>
        /\ secrets # <<>>
        /\ \A id \in DOMAIN config[1].secrets :
               id \in DOMAIN secrets[1] /\ secrets[1][id] = config[1].secrets[id]
        /\ (Handled /\ Method = PathGetSecret /\ Asked.ok
                /\ Asked.value \in DOMAIN config[1].secrets) =>
               AnsweredWith(GetSecretResponse(config[1].secrets[Asked.value]))

(***************************************************************************)
(* Reading the history of a build.                                         *)
(***************************************************************************)
\* the calls of a kind on the control channel, by their place in the history
RpcsOf(rpc) == {i \in 1..Len(rpcs) : rpcs[i].rpc = rpc}

\* build() has returned an error
Rejected == bpc = "done" /\ bresult # <<>> /\ ~bresult[1].ok

\* the calls on the progress handler of a kind
CallsOf(method) == {i \in 1..Len(calls) : calls[i].method = method}

(***************************************************************************)
(* C21.  A build whose local context path names nothing, or something that *)
(* is no directory, returns an error, and its Session call is never        *)
(* answered by a stream for which the session tasks are spawned.           *)
(***************************************************************************)
C21_RejectedBeforeStart ==
    (/\ config # <<>>
     /\ config[1].source.kind = "Local"
     /\ config[1].source.context_path # "dir") =>
        /\ ~spawned
        /\ bpc = "done" => Rejected

(***************************************************************************)
(* C22.  Whatever services are registered with a session, its metadata     *)
(* lists the same eight methods, and registering a service leaves the      *)
(* metadata as it was.                                                     *)
(***************************************************************************)
C22_Methods ==
    LET methods == Metadata(session[1])[KeyMethod]
    IN /\ Len(methods) = 8
       /\ {methods[i] : i \in 1..8} =
              {"/grpc.health.v1.Health/Check",
               "/moby.filesync.v1.FileSync/DiffCopy",
               "/moby.filesync.v1.FileSync/TarStream",
               "/moby.filesync.v1.Auth/Credentials",
               "/moby.filesync.v1.Auth/FetchToken",
               "/moby.filesync.v1.Auth/GetTokenAuthority",
               "/moby.filesync.v1.Auth/VerifyTokenAuthority",
               "/moby.buildkit.secrets.v1.Secrets/GetSecret"}
C22_Stable == Metadata(session[1])' = Metadata(session[1])
C22_MetadataComplete == []C22_Methods /\ [][C22_Stable]_vars

\* a session with all three services, and one with none
C22_Witness ==
    /\ tpc = "serving"
    /\ file_sync # <<>> /\ auth # <<>> /\ secrets # <<>>
    /\ Len(Metadata(session[1])[KeyMethod]) = 8

(***************************************************************************)
(* C23.  The Solve call of a build carries the same headers as the Session *)
(* call of its session: one session id under the Uuid key, one shared key  *)
(* under the Sharedkey key; and the session field of the SolveRequest is   *)
(* that session id.                                                        *)
(***************************************************************************)
C23_SolveHeaders ==
    \A j \in RpcsOf("Solve") :
        /\ RpcsOf("Session") # {}
        /\ \A i \in RpcsOf("Session") :
               /\ i < j
               /\ rpcs[j].headers = rpcs[i].headers
        /\ rpcs[j].headers["x-docker-expose-session-uuid"] = <<session[1].id>>
        /\ rpcs[j].headers["x-docker-expose-session-sharedkey"] = <<session[1].shared_key>>
        /\ rpcs[j].message.session = session[1].id

\* the Solve call of a build has been sent
C23_Witness ==
    /\ RpcsOf("Session") # {}
    /\ RpcsOf("Solve") # {}
    /\ solve = "in_flight"

(***************************************************************************)
(* C24.  For a local source the context attribute of the SolveRequest is   *)
(* "input:", the shared key of the session of the build, ":context"; the   *)
(* session id is no part of it.                                            *)
(***************************************************************************)
C24_ContextFromSharedKey ==
    \A j \in RpcsOf("Solve") :
        config[1].source.kind = "Local" =>
            LET context == rpcs[j].message.frontend_attrs["context"]
            IN /\ context = <<"input:">> \o session[1].shared_key \o <<":context">>
               /\ context # <<"input:">> \o session[1].id \o <<":context">>

\* sent for a session whose id and shared key come from the same UUID value
C24_Witness ==
    /\ RpcsOf("Solve") # {}
    /\ config[1].source.kind = "Local"
    /\ session[1].id[2] = session[1].shared_key[3]

(***************************************************************************)
(* C25.  When the Solve call fails and a progress handler was given,       *)
(* build() returns the error and on_error of the handler has been called.  *)
(***************************************************************************)
C25_SolveErrorReported ==
    (handler /\ solve = "err" /\ bpc = "done") =>
        /\ Rejected
        /\ CallsOf("on_error") # {}

(***************************************************************************)
(* C26.  The Status stream of a build is opened while its Solve call is in *)
(* flight: before the call has ended, not after.                           *)
(***************************************************************************)
C26_StatusDuringSolve ==
    /\ \A i \in RpcsOf("Status"), j \in RpcsOf("SolveEnd") : i < j
    /\ (handler /\ solve = "ok") => RpcsOf("Status") # {}

\* the calls on the handler are in order: on_start first and only first,
\* then on_status for the events of the stream in their order, then at most
\* one on_error, and on_complete as the last call of all
C27_InOrder ==
    /\ CallsOf("on_start") = {1} \cap (1..Len(calls))
    /\ \A i \in CallsOf("on_status") :
           /\ calls[i].argument = <<"status", i - 1>>
           /\ \A k \in 2..(i - 1) : calls[k].method = "on_status"
    /\ \A i \in CallsOf("on_error") :
           \A k \in (i + 1)..Len(calls) : calls[k].method = "on_complete"
    /\ Cardinality(CallsOf("on_error")) <= 1
    /\ \A i \in CallsOf("on_complete") : i = Len(calls) /\ bpc = "done"

(***************************************************************************)
(* C27 as stated.  The calls on the progress handler are in order, and     *)
(* when monitoring has ended the stream is used up and on_complete was the *)
(* last call.                                                              *)
(***************************************************************************)
C27_Stated ==
    /\ C27_InOrder
    /\ (bpc = "done" /\ calls # <<>>) =>
           (stream = <<>> /\ calls[Len(calls)].method = "on_complete")

(***************************************************************************)
(* C27.  The calls on the progress handler are in order; a call that       *)
(* returns an error is the last one and ends the build with an error; and  *)
(* when monitoring has ended and no call returned an error, the stream is  *)
(* used up and on_complete was the last call.                              *)
(***************************************************************************)
C27_HandlerCalls ==
    /\ C27_InOrder
    /\ \A i \in 1..Len(calls) : ~calls[i].ok => (i = Len(calls) /\ Rejected)
    /\ (bpc = "done" /\ calls # <<>> /\ \A i \in 1..Len(calls) : calls[i].ok) =>
           (stream = <<>> /\ calls[Len(calls)].method = "on_complete")

\* an event, then the error of the stream, then on_complete
C27_Witness ==
    /\ bpc = "done"
    /\ Len(calls) = 4
    /\ calls[2].method = "on_status"
    /\ calls[3].method = "on_error"
    /\ calls[4].method = "on_complete"
    /\ \A i \in 1..4 : calls[i].ok

(***************************************************************************)
(* C30.  Platform::parse succeeds exactly for a string with one or two     *)
(* '/' (two or three parts), and to_string of the Platform it returns is   *)
(* the string that was parsed.                                             *)
(***************************************************************************)
C30_PlatformRoundTrip ==
    platform # <<>> =>
        LET slashes == Cardinality({i \in 1..Len(input) : input[i] = 47})
        IN /\ platform[1].ok <=> slashes \in {1, 2}
           /\ platform[1].ok => PlatformToString(platform[1]) = input

\* three parts, the last of them empty
C30_Witness ==
    /\ platform # <<>>
    /\ platform[1].ok
    /\ platform[1].variant = <<<<>>>>
    /\ platform[1].os # <<>>
    /\ input[Len(input)] = 47

(***************************************************************************)
(* Reading the tasks of a session.                                         *)
(***************************************************************************)
\* the pumps, the tunnel server and the handler tasks have returned
TasksExited ==
    /\ in_pump = "exited"
    /\ conn = "exited"
    /\ htask = "none"
    /\ out_pump = "exited"

(***************************************************************************)
(* C28.  Once build() has returned, the outbound half of the Session       *)
(* stream is eventually closed and the pumps, the tunnel server and the    *)
(* handler tasks of the session eventually return, whether or not the      *)
(* daemon ends its half: stated for the daemon that keeps its half open,   *)
(* the session ends unless the daemon ends the stream after all.           *)
(***************************************************************************)
C28_SessionEndsWithBuild ==
    (~session_tx) ~> (inbound = "closed" \/ (rx # "open" /\ TasksExited))

(***************************************************************************)
(* C29.  Once the daemon has ended its half of the Session stream, the     *)
(* inbound pump, the tunnel server, every handler task and the outbound    *)
(* pump eventually return.                                                 *)
(***************************************************************************)
C29_TasksEndAfterClose == (inbound = "closed") ~> TasksExited

(***************************************************************************)
(* C31.  A write of the connection that found the outbound channel full    *)
(* is suspended with its frames kept, and it eventually completes: the     *)
(* writer does not stay suspended while the channel has room.  Stated for  *)
(* a channel whose receiver, the outbound pump, is alive: the write        *)
(* completes unless the pump returns.                                      *)
(***************************************************************************)
WriteSuspended == conn \in {"open", "closing"} /\ ~woken /\ out_buf > 0
C31_WriteResumes ==
    (WriteSuspended /\ out_chan < ChannelCap /\ out_pump # "exited")
        ~> (out_buf = 0 \/ conn = "exited" \/ out_pump = "exited")

(***************************************************************************)
(* C39.  A request on a routed path whose handler has returned has a       *)
(* response that ends its stream with a grpc-status, in headers that end   *)
(* the stream or in trailers, also when the handler failed.                *)
(***************************************************************************)
C39_AlwaysAnswered ==
    (Handled /\ Method \in RoutedPaths /\ returned # "diffcopy") =>
        /\ response # <<>>
        /\ LastEvent.grpc_status # <<>>
        /\ LastEvent.end_stream

(***************************************************************************)
(* Reading the inbound half of a DiffCopy call as one byte string.         *)
(***************************************************************************)
\* the gRPC-framed messages of a byte string, up to the first that is not
\* complete
RECURSIVE MessagesOf(_)
MessagesOf(bytes) ==
    IF ~HasMessage(bytes) THEN <<>>
    ELSE <<[compressed |-> bytes[1], data |-> MessageData(bytes)]>>
             \o MessagesOf(Drained(bytes))

\* a message the handler decodes, and the kind of packet it finds
Decodes(m) == m.compressed = 0 /\ Decode(m.data).ok
KindOf(m) == PacketTypeOf(Decode(m.data).type)

\* the messages up to the first FIN packet
UpToFin(msgs) ==
    LET fins == {i \in 1..Len(msgs) : Decodes(msgs[i]) /\ KindOf(msgs[i]) = "FIN"}
    IN IF fins = {} THEN msgs
       ELSE SubSeq(msgs, 1, CHOOSE i \in fins : \A j \in fins : i <= j)

\* the ids of the REQ packets among messages
ReqsOf(msgs) ==
    LET asked == SelectSeq(msgs, LAMBDA m : Decodes(m) /\ KindOf(m) = "REQ")
    IN [i \in 1..Len(asked) |-> Decode(asked[i].data).id]

(***************************************************************************)
(* C38.  The messages the REQ loop takes from the inbound half are those   *)
(* of the byte string the daemon sent, in order and up to the first FIN    *)
(* packet, however the string was split into chunks: all of them once the  *)
(* bytes in flight have been read, and the REQ packets served are the REQ  *)
(* packets among them, in order.                                           *)
(***************************************************************************)
C38_ChunkingIrrelevant ==
    (heard # <<>>) =>
        LET all == UpToFin(MessagesOf(heard[1].sent))
            taken == heard[1].taken
        IN /\ Len(taken) <= Len(all)
           /\ taken = SubSeq(all, 1, Len(taken))
           /\ (pc \in {"recv", "fin", "trailers", "done"} /\ wire = <<>>) => taken = all
           /\ [i \in 1..Len(reqs) |-> reqs[i].id] = ReqsOf(taken)

\* a message has been taken and the next one is in the buffer in part, the
\* rest of it in flight
C38_Witness ==
    /\ heard # <<>>
    /\ Len(heard[1].taken) >= 1
    /\ pc = "recv"
    /\ buffer # <<>> /\ ~HasMessage(buffer)
    /\ wire # <<>>

(***************************************************************************)
(* Reading the messages on their way through a session.                    *)
(***************************************************************************)
\* the payloads of messages, one after the other
RECURSIVE Flatten(_)
Flatten(msgs) == IF msgs = <<>> THEN <<>> ELSE Head(msgs) \o Flatten(Tail(msgs))

IsPrefixOf(a, b) == Len(a) <= Len(b) /\ a = SubSeq(b, 1, Len(a))

(***************************************************************************)
(* C32.  The bytes the reads of the MessageStream have returned, one after *)
(* the other, are a prefix of the payloads of the messages the daemon      *)
(* sent, in the order of their arrival: no byte is lost, repeated or out   *)
(* of order, also when a message is returned over several reads.           *)
(***************************************************************************)
C32_ReadsInOrder == IsPrefixOf(delivered, Flatten(d_sent))

\* a message longer than a read may ask for has been returned, and the one
\* after it
C32_Witness ==
    /\ d_sent = <<<<2, 3, 4>>, <<1>>>>
    /\ delivered = <<2, 3, 4, 1>>

(***************************************************************************)
(* C33.  The messages put into the outbound channel are the buffers of the *)
(* writes that returned Ok, one message for each in order, and such a      *)
(* write reports the length of its buffer; a write that finds the channel  *)
(* full or closed puts nothing into it.                                    *)
(***************************************************************************)
C33_OneMessagePerWrite ==
    /\ enqueued = written
    /\ (last_write # <<>> /\ last_write[1].result = "ok") =>
           last_write[1].n = Len(last_write[1].buf)

\* a write has found the channel full after one that succeeded
C33_Witness ==
    /\ Len(written) >= 1
    /\ last_write # <<>>
    /\ last_write[1].result = "pending"

(***************************************************************************)
(* C34.  A read that finds the inbound channel closed, with no message in  *)
(* it and no byte buffered, reports EOF: it returns Ok and no byte.  A     *)
(* write that finds the receiver of the outbound channel closed fails with *)
(* BrokenPipe.                                                             *)
(***************************************************************************)
C34_CloseSurfaces ==
    /\ (last_read # <<>> /\ last_read[1].closed /\ ~last_read[1].had) =>
           (last_read[1].result = "ready" /\ last_read[1].copied = 0)
    /\ (last_write # <<>> /\ last_write[1].closed) =>
           last_write[1].result = "broken_pipe"

\* a read has reported EOF after bytes were delivered, and a write has
\* failed
C34_Witness ==
    /\ delivered # <<>>
    /\ last_read # <<>> /\ last_read[1].closed /\ ~last_read[1].had
    /\ last_write # <<>> /\ last_write[1].closed

C40_EofOnlyWhenClosed ==
    (last_read # <<>> /\ last_read[1].result = "ready" /\ last_read[1].copied = 0) =>
        last_read[1].closed

(***************************************************************************)
(* Reading the streams of a connection.                                    *)
(***************************************************************************)
\* the packets of a kind a task has sent
PacketsOf(s, kind) == SelectSeq(h2_streams[s].out, LAMBDA e : e.kind = kind)

\* the response of a task that returned Ok is whole
Complete(s) ==
    LET c == h2_streams[s]
    IN IF c.dir = "" THEN Len(c.out) = 1 /\ c.out[1].kind = "OK"
       ELSE /\ Len(PacketsOf(s, "STAT")) = Len(Listing(c.dir)) + 1
            /\ c.out[Len(c.out)].kind = "FIN"

(***************************************************************************)
(* C36.  When the handler task of a stream fails, the accept loop goes on  *)
(* and the tasks of the other streams are left as they are; a task that    *)
(* returns Ok has sent its whole response, whatever became of the others.  *)
(***************************************************************************)
C36_Completes ==
    \A s \in DOMAIN h2_streams : h2_streams[s].st = "done" => Complete(s)
C36_FailureStaysLocal ==
    \A s \in DOMAIN h2_streams :
        (h2_streams[s].st # "failed" /\ h2_streams'[s].st = "failed") =>
            /\ accepting' = accepting
            /\ \A t \in DOMAIN h2_streams \ {s} : h2_streams'[t] = h2_streams[t]
C36_Isolated == []C36_Completes /\ [][C36_FailureStaysLocal]_vars

\* a DiffCopy call has failed while another one was running, which has
\* completed; the accept loop still runs
C36_Witness ==
    /\ accepting
    /\ \E s, t \in DOMAIN h2_streams :
          /\ h2_streams[s].st = "failed" /\ h2_streams[s].dir # ""
          /\ h2_streams[t].st = "done" /\ h2_streams[t].dir # ""
          /\ h2_streams[t].after = {}
          /\ h2_streams[s].after = {}

(***************************************************************************)
(* C37.  The ids of a DiffCopy call are its own: the STAT packets of a     *)
(* call carry 0, 1, 2, ... for the entries of its listing in order,        *)
(* whatever other calls do at the same time, and a DATA packet of a call   *)
(* carries an id and the file that a STAT packet of the same call gave     *)
(* that id.                                                                *)
(***************************************************************************)
C37_IdsLocal ==
    \A s \in DOMAIN h2_streams :
        LET c == h2_streams[s]
            stats == PacketsOf(s, "STAT")
            data == PacketsOf(s, "DATA")
        IN /\ \A i \in 1..Len(stats) :
                  i <= Len(Listing(c.dir)) =>
                      (stats[i].id = i - 1 /\ stats[i].path = Listing(c.dir)[i].path)
           /\ \A i \in 1..Len(data) :
                  \E j \in 1..Len(stats) :
                      /\ j <= Len(Listing(c.dir))
                      /\ Listing(c.dir)[j].file
                      /\ stats[j].id = data[i].id
                      /\ stats[j].path = data[i].path

\* two calls with different listings run at the same time and each has
\* served a REQ, the one over the whole tree for an id that the one over
\* the Dockerfile alone never assigned
C37_Witness ==
    \E s, t \in DOMAIN h2_streams :
        /\ h2_streams[s].dir = "dockerfile" /\ h2_streams[t].dir = "context"
        /\ h2_streams[s].after = {} /\ h2_streams[t].after = {}
        /\ h2_streams[s].st = "reqs" /\ h2_streams[t].st = "reqs"
        /\ h2_streams[s].asks < MaxReqs
        /\ PacketsOf(s, "DATA") # <<>>
        /\ PacketsOf(t, "DATA") # <<>>
        /\ \E e \in {PacketsOf(t, "DATA")[i] : i \in 1..Len(PacketsOf(t, "DATA"))} : e.id = 2

====
